---- MODULE Spec2Model ----
(***************************************************************************)
(* AVRT Firewall: decision pipeline (SPIEL scoring and enforcement, THT    *)
(* validation), fail-closed guard and audit hash chain.                    *)
(*                                                                         *)
(* Scores are the integer values the Python floats take (every penalty and *)
(* bonus is a whole number).  A composite score is kept as its numerator   *)
(* over 5 ("composite5" = 5 * composite), so composite >= t is             *)
(* composite5 >= 5 * t.  A THT confidence is kept as its numerator over 3  *)
(* ("confidence3"), so confidence >= 0.8 is 10 * confidence3 >= 24.        *)
(***************************************************************************)
EXTENDS Integers, Sequences, FiniteSets, TLC

VARIABLES engine, call, clock, wrapper, guard, fw, validation, chain, audit, limiter, voice

vars == <<engine, call, clock, wrapper, guard, fw, validation, chain, audit, limiter, voice>>

(***************************************************************************)
(* Bounds of the model.                                                    *)
(***************************************************************************)
MaxFrags == 2

MaxChain == 3

MaxTime == 4

(***************************************************************************)
(* Texts.  A text is a set of fragments joined by single blanks, followed  *)
(* by `ws` blanks; None is the Python None.  The fragments are fixed       *)
(* strings; Substrings gives, for a fragment, the patterns of the source's *)
(* pattern lists that occur in it (Python's `pattern in s`), "re:year" for *)
(* a match of the regular expression \b(19|20)\d{2}\b and "inner:." for a  *)
(* full stop before the last character.  No pattern                        *)
(* spans two fragments joined by a blank, and no two fragments share a     *)
(* word.  The inputs and responses of the voice firewall ("hello", ...,    *)
(* Passthrough, Apology) are texts of one fragment each and are never      *)
(* joined with another fragment.                                           *)
(***************************************************************************)
\* a text with many personal and reasoning markers
MarkerText ==
    "i understand here's what i can helpfully let mentors see your assistant thus since consequently as a result due to given that"

\* a text with many harmful, unethical and dishonest phrases
ViolationText ==
    "harm destroy hate bomb poison murder threat deceive manipulate abuse illegal scam just trust meanwhile semi guarantee don't tell anyone between us absolutely certain 100% guarantee"

Vocab ==
    { "kill attack weapon violence", "hurt", "cheat steal fraud", "exploit",
      "definitely", "believe me", "always true", "because", "Therefore",
      "this is the long established plan for tomorrow morning",
      "help you", "yes", "la la la la la la", "secret", MarkerText, ViolationText }

\* the fixed responses of the voice firewall (src/middleware.py 156, 159);
\* (TM) stands for the trade mark sign
Passthrough == "AVRT(TM) Firewall active. No LLM function configured."

Apology == "I apologize, but I'm unable to generate a response at this time."

Lower(f) ==
    CASE f = "Therefore" -> "therefore"
      [] f = Passthrough -> "avrt(TM) firewall active. no llm function configured."
      [] f = Apology -> "i apologize, but i'm unable to generate a response at this time."
      [] OTHER -> f

FragLen(f) ==
    CASE f = "kill attack weapon violence" -> 27
      [] f = "hurt" -> 4
      [] f = "cheat steal fraud" -> 17
      [] f = "exploit" -> 7
      [] f = "definitely" -> 10
      [] f = "believe me" -> 10
      [] f = "always true" -> 11
      [] f = "because" -> 7
      [] f \in {"Therefore", "therefore"} -> 9
      [] f = "this is the long established plan for tomorrow morning" -> 54
      [] f = "help you" -> 8
      [] f = "yes" -> 3
      [] f = "la la la la la la" -> 17
      [] f = "secret" -> 6
      [] f = MarkerText -> 125
      [] f = ViolationText -> 180
      [] f = "hello" -> 5
      [] f = "tell me about weapons" -> 21
      [] f \in {"i had a nightmare", "it worked in 2020"} -> 17
      [] f = "sure thing" -> 10
      [] f = "it is definitely safe. go ahead" -> 31
      [] f = "as an ai, i think so" -> 20
      [] f \in {Passthrough, Lower(Passthrough)} -> 50
      [] f \in {Apology, Lower(Apology)} -> 64

\* number of blank-separated words / of distinct words of a fragment
FragWords(f) ==
    CASE f = "kill attack weapon violence" -> 4
      [] f = "cheat steal fraud" -> 3
      [] f \in {"believe me", "always true", "help you", "sure thing"} -> 2
      [] f \in {"tell me about weapons", "i had a nightmare", "it worked in 2020"} -> 4
      [] f \in {"it is definitely safe. go ahead", "as an ai, i think so"} -> 6
      [] f \in {Passthrough, Lower(Passthrough)} -> 7
      [] f \in {Apology, Lower(Apology)} -> 12
      [] f = "this is the long established plan for tomorrow morning" -> 9
      [] f = "la la la la la la" -> 6
      [] f = MarkerText -> 22
      [] f = ViolationText -> 26
      [] OTHER -> 1

FragUnique(f) ==
    CASE f = "la la la la la la" -> 1
      [] f = MarkerText -> 21
      [] f = ViolationText -> 25
      [] OTHER -> FragWords(f)

Substrings(f) ==
    CASE f = "kill attack weapon violence" -> {"kill", "attack", "weapon", "violence"}
      [] f = "hurt" -> {"hurt"}
      [] f = "cheat steal fraud" -> {"cheat", "steal", "fraud"}
      [] f = "exploit" -> {"exploit"}
      [] f = "definitely" -> {"definitely"}
      [] f = "believe me" -> {"believe me", "lie"}
      [] f = "always true" -> {"always true", "always"}
      [] f = "because" -> {"because"}
      [] f = "Therefore" -> {"or"}
      [] f = "therefore" -> {"therefore", "or"}
      [] f = "this is the long established plan for tomorrow morning" -> {"is", "or"}
      [] f = "help you" -> {"help", "you"}
      [] f = "secret" -> {"secret"}
      [] f = MarkerText ->
            {"as a result", "assist", "can", "consequently", "due to", "given that",
             "help", "here's what", "i can help", "i understand", "is", "let me",
             "or", "since", "thus", "understand", "you", "your"}
      [] f = ViolationText ->
            {"100% guarantee", "absolutely", "absolutely certain", "abuse", "between us", "bomb",
             "deceive", "destroy", "don't tell", "don't tell anyone", "guarantee",
             "harm", "hate", "i guarantee", "illegal", "is", "just trust me",
             "manipulate", "murder", "poison", "scam", "threat", "trust me"}
      [] f = "tell me about weapons" -> {"weapon"}
      [] f = "i had a nightmare" -> {"are", "nightmare"}
      [] f = "it is definitely safe. go ahead" -> {"definitely", "inner:.", "is"}
      [] f = "as an ai, i think so" -> {"as an ai"}
      [] f = "it worked in 2020" -> {"or", "re:year"}
      [] f \in {Passthrough, Lower(Passthrough)} -> {"all", "inner:."}
      [] f \in {Apology, Lower(Apology)} -> {"is"}
      [] OTHER -> {}

None == [isNone |-> TRUE, frags |-> {}, ws |-> 0]

Str(fs, w) == [isNone |-> FALSE, frags |-> fs, ws |-> w]

Texts ==
    {None} \cup { Str(fs, w) : fs \in {s \in SUBSET Vocab : Cardinality(s) <= MaxFrags},
                               w \in {0, 12} }

RECURSIVE SumLen(_)
SumLen(S) ==
    IF S = {} THEN 0
    ELSE LET x == CHOOSE y \in S : TRUE IN FragLen(x) + SumLen(S \ {x})

RECURSIVE SumWords(_)
SumWords(S) ==
    IF S = {} THEN 0
    ELSE LET x == CHOOSE y \in S : TRUE IN FragWords(x) + SumWords(S \ {x})

RECURSIVE SumUnique(_)
SumUnique(S) ==
    IF S = {} THEN 0
    ELSE LET x == CHOOSE y \in S : TRUE IN FragUnique(x) + SumUnique(S \ {x})

\* str.lower()
lower(text) == [text EXCEPT !.frags = {Lower(f) : f \in text.frags}]

\* len(text.strip())
StripLen(text) ==
    IF text.frags = {} THEN 0
    ELSE SumLen(text.frags) + Cardinality(text.frags) - 1

\* len(text)
len(text) == StripLen(text) + text.ws

\* pattern in text
In(pattern, text) == \E f \in text.frags : pattern \in Substrings(f)

\* number of patterns of a list that occur in text
Count(patterns, text) == Len(SelectSeq(patterns, LAMBDA p : In(p, text)))

Max(a, b) == IF a >= b THEN a ELSE b

Min(a, b) == IF a <= b THEN a ELSE b

(***************************************************************************)
(* SPIELEngine (ios-sdk/middleware/spiel_engine.py): policy store.         *)
(* An optional JSON entry is a set: {} when the key is absent, {v} when it *)
(* is present with value v.                                                *)
(***************************************************************************)
Get(entry, default) == IF entry = {} THEN default ELSE CHOOSE v \in entry : TRUE

DefaultHarmful ==
    <<"harm", "hurt", "attack", "kill", "destroy",
      "hate", "violence", "weapon", "bomb", "poison">>

DefaultUnethical ==
    <<"cheat", "lie", "deceive", "manipulate", "exploit", "abuse", "steal", "fraud">>

DefaultDishonest ==
    <<"trust me", "believe me", "guarantee", "secret", "don't tell", "definitely">>

DefaultPositive ==
    <<"help", "assist", "support", "understand", "because", "reason", "based on">>

Thresholds(s, e, i, l, p) ==
    [safety |-> s, ethics |-> e, integrity |-> i, logic |-> l, personalization |-> p]

Patterns(h, u, d, p) ==
    [harmful |-> h, unethical |-> u, dishonest |-> d, positive |-> p]

DefaultPatterns ==
    Patterns({DefaultHarmful}, {DefaultUnethical}, {DefaultDishonest}, {DefaultPositive})

_default_policy ==
    [kind |-> "object",
     fail_closed |-> {TRUE},
     thresholds |-> {Thresholds({85}, {90}, {80}, {75}, {70})},
     patterns |-> {DefaultPatterns}]

\* policy documents a policy file may hold
DocLow ==
    [kind |-> "object",
     fail_closed |-> {TRUE},
     thresholds |-> {Thresholds({40}, {40}, {80}, {75}, {70})},
     patterns |-> {DefaultPatterns}]

DocOpen ==
    [kind |-> "object",
     fail_closed |-> {FALSE},
     thresholds |-> {},
     patterns |-> {DefaultPatterns}]

DocPartial ==
    [kind |-> "object",
     fail_closed |-> {},
     thresholds |-> {Thresholds({}, {}, {96}, {}, {})},
     patterns |-> {}]

DocArray ==
    [kind |-> "array", fail_closed |-> {}, thresholds |-> {}, patterns |-> {}]

\* a policy file whose catalogs are longer than the default ones
LongHarmful == DefaultHarmful \o <<"murder", "threat">>

LongDishonest ==
    DefaultDishonest \o <<"between us", "absolutely certain", "100% guarantee", "just trust me">>

DocLong ==
    [kind |-> "object",
     fail_closed |-> {TRUE},
     thresholds |-> {},
     patterns |-> {Patterns({LongHarmful}, {DefaultUnethical}, {LongDishonest}, {DefaultPositive})}]

\* what open(policy_path) / json.load can meet
PolicySources ==
    { [file |-> "missing", doc |-> DocArray],
      [file |-> "invalid", doc |-> DocArray],
      [file |-> "json", doc |-> DocLow],
      [file |-> "json", doc |-> DocOpen],
      [file |-> "json", doc |-> DocPartial],
      [file |-> "json", doc |-> DocArray] }

_load_policy(src) == IF src.file = "json" THEN src.doc ELSE _default_policy

NoThresholds == Thresholds({}, {}, {}, {}, {})

NoPatterns == Patterns({}, {}, {}, {})

\* SPIELEngine.__init__; a policy that is not a JSON object has no .get and
\* the constructor raises
SPIELEngine(src) ==
    LET policy == _load_policy(src)
        th == Get(policy.thresholds, NoThresholds)
        pt == Get(policy.patterns, NoPatterns)
    IN  [constructed |-> policy.kind = "object",
         policy |-> policy,
         safety_threshold |-> Get(th.safety, 85),
         ethics_threshold |-> Get(th.ethics, 90),
         integrity_threshold |-> Get(th.integrity, 80),
         logic_threshold |-> Get(th.logic, 75),
         personalization_threshold |-> Get(th.personalization, 70),
         harmful_patterns |-> Get(pt.harmful, <<>>),
         unethical_patterns |-> Get(pt.unethical, <<>>),
         dishonest_patterns |-> Get(pt.dishonest, <<>>),
         positive_patterns |-> Get(pt.positive, <<>>),
         fail_closed |-> Get(policy.fail_closed, TRUE)]

(***************************************************************************)
(* SPIELEngine: dimension analysis.                                        *)
(***************************************************************************)
\* the context argument: None, {}, {"user_preferences": ...}, or a value
\* that is not a dict (a non-empty str)
Contexts == {"None", "empty", "prefs", "str"}

Violations(kind, patterns, text) ==
    LET hit == SelectSeq(patterns, LAMBDA p : In(p, text))
    IN  [i \in 1..Len(hit) |-> <<kind, hit[i]>>]

\* _analyze_safety that returns the score without max(0, ...)
_analyze_safety_NoClamp(self, text) ==
    LET text_lower == lower(text)
    IN  [score |-> 100 - 15 * Count(self.harmful_patterns, text_lower),
         violations |-> Violations("harmful_pattern", self.harmful_patterns, text_lower)]

_analyze_safety(self, text) ==
    LET text_lower == lower(text)
    IN  [score |-> Max(0, 100 - 15 * Count(self.harmful_patterns, text_lower)),
         violations |-> Violations("harmful_pattern", self.harmful_patterns, text_lower)]

_analyze_personalization(self, text, context) ==
    LET text_lower == lower(text)
        positive_markers == <<"you", "your", "help", "assist", "would you like">>
        score == 80 + 4 * Count(positive_markers, text_lower)
    IN  Min(100, IF context = "prefs" THEN score + 5 ELSE score)

_analyze_integrity(self, text) ==
    LET text_lower == lower(text)
    IN  [score |-> Max(0, 95 - 15 * Count(self.dishonest_patterns, text_lower)),
         violations |-> Violations("dishonest_pattern", self.dishonest_patterns, text_lower)]

_analyze_ethics(self, text) ==
    LET text_lower == lower(text)
    IN  [score |-> Max(0, 100 - 20 * Count(self.unethical_patterns, text_lower)),
         violations |-> Violations("unethical_pattern", self.unethical_patterns, text_lower)]

_analyze_logic(self, text) ==
    LET text_lower == lower(text)
        logic_markers == <<"because", "therefore", "thus", "since", "based on">>
        score == 85 + 3 * Count(logic_markers, text_lower)
    IN  Max(0, Min(100, IF StripLen(text) < 10 THEN score - 20 ELSE score))

(***************************************************************************)
(* SPIELEngine._determine_action                                           *)
(***************************************************************************)
\* _determine_action without the absolute floor
_determine_action_NoFloor(self, safety, personalization, integrity, ethics, logic, violations) ==
    IF safety < self.safety_threshold
        THEN <<"BLOCK", "Safety below threshold">>
    ELSE IF ethics < self.ethics_threshold
        THEN <<"BLOCK", "Ethics below threshold">>
    ELSE IF integrity < self.integrity_threshold
        THEN <<"WARN", "Integrity below threshold">>
    ELSE IF logic < self.logic_threshold
        THEN <<"WARN", "Logic below threshold">>
    ELSE IF violations # <<>>
        THEN <<"REVIEW", "Violations detected">>
    ELSE <<"ALLOW", "All SPIEL criteria passed">>

\* _determine_action that looks at the violations before the Warn rules
_determine_action_ReviewFirst(self, safety, personalization, integrity, ethics, logic, violations) ==
    IF safety < 50 \/ ethics < 50
        THEN <<"BLOCK", "Critical safety or ethics violation">>
    ELSE IF safety < self.safety_threshold
        THEN <<"BLOCK", "Safety below threshold">>
    ELSE IF ethics < self.ethics_threshold
        THEN <<"BLOCK", "Ethics below threshold">>
    ELSE IF violations # <<>>
        THEN <<"REVIEW", "Violations detected">>
    ELSE IF integrity < self.integrity_threshold
        THEN <<"WARN", "Integrity below threshold">>
    ELSE IF logic < self.logic_threshold
        THEN <<"WARN", "Logic below threshold">>
    ELSE <<"ALLOW", "All SPIEL criteria passed">>

_determine_action(self, safety, personalization, integrity, ethics, logic, violations) ==
    IF safety < 50 \/ ethics < 50
        THEN <<"BLOCK", "Critical safety or ethics violation">>
    ELSE IF safety < self.safety_threshold
        THEN <<"BLOCK", "Safety below threshold">>
    ELSE IF ethics < self.ethics_threshold
        THEN <<"BLOCK", "Ethics below threshold">>
    ELSE IF integrity < self.integrity_threshold
        THEN <<"WARN", "Integrity below threshold">>
    ELSE IF logic < self.logic_threshold
        THEN <<"WARN", "Logic below threshold">>
    ELSE IF violations # <<>>
        THEN <<"REVIEW", "Violations detected">>
    ELSE <<"ALLOW", "All SPIEL criteria passed">>

SPIELResult(action, s, p, i, e, l, c5, violations, reasoning) ==
    [action |-> action, safety_score |-> s, personalization_score |-> p,
     integrity_score |-> i, ethics_score |-> e, logic_score |-> l,
     composite5 |-> c5, violations |-> violations, reasoning |-> reasoning]

NoResult == SPIELResult("none", 0, 0, 0, 0, 0, 0, <<>>, "")

\* the try block of enforce raises: text.lower() on None (AttributeError in
\* _analyze_safety), context.get on a non-dict (in _analyze_personalization)
EnforceRaises(text, context) == text.isNone \/ context = "str"

FailClosedResult ==
    SPIELResult("BLOCK", 0, 0, 0, 0, 0, 0, <<<<"system_error", "">>>>,
                "Fail-closed triggered due to error")

\* the try block of SPIELEngine.enforce when nothing raises
enforce_try(self, text, context) ==
    LET safety == _analyze_safety(self, text)
        personalization_score == _analyze_personalization(self, text, context)
        integrity == _analyze_integrity(self, text)
        ethics == _analyze_ethics(self, text)
        logic_score == _analyze_logic(self, text)
        all_violations == safety.violations \o integrity.violations \o ethics.violations
        composite5 == safety.score + personalization_score + integrity.score
                      + ethics.score + logic_score
        decision == _determine_action(self, safety.score, personalization_score,
                                      integrity.score, ethics.score, logic_score,
                                      all_violations)
    IN  SPIELResult(decision[1], safety.score, personalization_score,
                    integrity.score, ethics.score, logic_score, composite5,
                    all_violations, decision[2])

\* enforce whose handler contains only the fault of a None text
enforce_TextFaultOnly(self, text, context) ==
    IF text.isNone
    THEN IF self.fail_closed THEN <<"returned", FailClosedResult>>
         ELSE <<"raised", NoResult>>
    ELSE <<"returned", enforce_try(self, text, context)>>

\* SPIELEngine.enforce: <<outcome, result>>
enforce(self, text, context) ==
    IF EnforceRaises(text, context)
    THEN IF self.fail_closed THEN <<"returned", FailClosedResult>>
         ELSE <<"raised", NoResult>>
    ELSE <<"returned", enforce_try(self, text, context)>>

(***************************************************************************)
(* Calls of the engine.  `call` is the last call made and what it gave.    *)
(***************************************************************************)
NoCall ==
    [op |-> "none", text |-> None, context |-> "None",
     outcome |-> "none", result |-> NoResult]

\* score arguments _determine_action is applied to directly
SafetyGrid == {39, 45, 50, 84, 85}

EthicsGrid == {39, 45, 50, 89, 90}

IntegrityGrid == {79, 80, 95, 96}

LogicGrid == {74, 75}

ViolationLists == {<<>>, <<<<"dishonest_pattern", "secret">>>>}

\* the caller makes one call at a time and takes its result before the next
CallerIdle ==
    /\ call.op = "none"
    /\ wrapper.pc = "idle"
    /\ guard.pc = "out"
    /\ guard.query.q = "none"
    /\ validation.op = "none"

Enforce(text, context) ==
    /\ CallerIdle
    /\ engine.constructed
    /\ LET r == enforce(engine, text, context)
       IN  call' = [op |-> "enforce", text |-> text, context |-> context,
                    outcome |-> r[1], result |-> r[2]]
    /\ UNCHANGED <<engine, clock, wrapper, guard, fw, validation, chain, audit, limiter, voice>>

DetermineAction(safety, integrity, ethics, logic, violations) ==
    /\ CallerIdle
    /\ engine.constructed
    /\ LET d == _determine_action(engine, safety, 80, integrity, ethics, logic, violations)
       IN  call' = [op |-> "determine", text |-> None, context |-> "None",
                    outcome |-> "returned",
                    result |-> SPIELResult(d[1], safety, 80, integrity, ethics, logic,
                                           safety + 80 + integrity + ethics + logic,
                                           violations, d[2])]
    /\ UNCHANGED <<engine, clock, wrapper, guard, fw, validation, chain, audit, limiter, voice>>

\* SPIELEngine.reload_policy: only self.policy is assigned
reload_policy(src) ==
    /\ CallerIdle
    /\ engine.constructed
    /\ engine' = [engine EXCEPT !.policy = _load_policy(src)]
    /\ call' = [NoCall EXCEPT !.op = "reload_policy", !.outcome = "returned"]
    /\ UNCHANGED <<clock, wrapper, guard, fw, validation, chain, audit, limiter, voice>>

(***************************************************************************)
(* Fail-closed module (ios-sdk/middleware/fail_closed.py).                 *)
(* time.time() is the variable clock, in ticks; timeouts are in ticks and  *)
(* confidences in percent.                                                 *)
(***************************************************************************)
\* values a wrapped computation can return: None, or a result carrying a
\* confidence
NoneValue == [isNone |-> TRUE, confidence |-> 0]

Value(c) == [isNone |-> FALSE, confidence |-> c]

Values == {NoneValue, Value(10), Value(90)}

Timeouts == {1, 2}

\* how the wrapped computation ends: it returns, raises, or never returns
Behaviours == {"returns", "raises", "stalls"}

FailClosedResponse(reason) ==
    [kind |-> "FailClosedResponse", blocked |-> TRUE, reason |-> reason, value |-> NoneValue]

Returned(value) ==
    [kind |-> "result", blocked |-> FALSE, reason |-> "", value |-> value]

Raised == [kind |-> "raised", blocked |-> FALSE, reason |-> "", value |-> NoneValue]

NoReturn == [kind |-> "none", blocked |-> FALSE, reason |-> "", value |-> NoneValue]

NoWrapper ==
    [pc |-> "idle", timeout_seconds |-> 1, on_exception |-> TRUE, start_time |-> 0,
     func |-> "returns", value |-> NoneValue, ret |-> NoReturn, spin |-> 0]

\* time passes
Tick ==
    /\ clock < MaxTime
    /\ clock' = clock + 1
    /\ UNCHANGED <<engine, call, wrapper, guard, fw, validation, chain, audit, limiter, voice>>

\* fail_closed(...).wrapper, up to the call of func
WrapperCall(timeout_seconds, on_exception, func, value) ==
    /\ CallerIdle
    /\ wrapper' = [pc |-> "running", timeout_seconds |-> timeout_seconds,
                   on_exception |-> on_exception, start_time |-> clock,
                   func |-> func, value |-> value, ret |-> NoReturn, spin |-> 0]
    /\ UNCHANGED <<engine, call, clock, guard, fw, validation, chain, audit, limiter, voice>>

\* wrapper: func is still running and will never return (one more turn of
\* its loop)
WrapperFuncStalls ==
    /\ wrapper.pc = "running"
    /\ wrapper.func = "stalls"
    /\ wrapper' = [wrapper EXCEPT !.spin = 1 - @]
    /\ UNCHANGED <<engine, call, clock, guard, fw, validation, chain, audit, limiter, voice>>

\* wrapper that returns the result whatever time has elapsed
WrapperFuncReturns_NoTimeout ==
    /\ wrapper.pc = "running"
    /\ wrapper.func = "returns"
    /\ wrapper' = [wrapper EXCEPT !.pc = "done", !.ret = Returned(wrapper.value)]
    /\ UNCHANGED <<engine, call, clock, guard, fw, validation, chain, audit, limiter, voice>>

\* wrapper: func returned; the elapsed time is checked and the result or a
\* TIMEOUT response is returned
WrapperFuncReturns ==
    /\ wrapper.pc = "running"
    /\ wrapper.func = "returns"
    /\ LET elapsed == clock - wrapper.start_time
       IN  wrapper' = [wrapper EXCEPT
                         !.pc = "done",
                         !.ret = IF elapsed > wrapper.timeout_seconds
                                 THEN FailClosedResponse("TIMEOUT")
                                 ELSE Returned(wrapper.value)]
    /\ UNCHANGED <<engine, call, clock, guard, fw, validation, chain, audit, limiter, voice>>

\* wrapper whose except clause always re-raises
WrapperFuncRaises_Reraise ==
    /\ wrapper.pc = "running"
    /\ wrapper.func = "raises"
    /\ wrapper' = [wrapper EXCEPT !.pc = "done", !.ret = Raised]
    /\ UNCHANGED <<engine, call, clock, guard, fw, validation, chain, audit, limiter, voice>>

\* wrapper: func raised; the except clause
WrapperFuncRaises ==
    /\ wrapper.pc = "running"
    /\ wrapper.func = "raises"
    /\ wrapper' = [wrapper EXCEPT
                     !.pc = "done",
                     !.ret = IF wrapper.on_exception
                             THEN FailClosedResponse("EXCEPTION")
                             ELSE Raised]
    /\ UNCHANGED <<engine, call, clock, guard, fw, validation, chain, audit, limiter, voice>>

(***************************************************************************)
(* FailClosedGuard.  start_time None is -1; error is "self.error is not    *)
(* None".  pc is "in" while a with block of the guard is running; body is  *)
(* how that block ends.  query is the last should_block / blocked_response *)
(* evaluated on the guard.                                                 *)
(***************************************************************************)
NoQuery ==
    [q |-> "none", result |-> NoneValue, answer |-> FALSE, reason |-> "", at |-> 0]

FailClosedGuard(timeout, uncertainty_threshold) ==
    [timeout |-> timeout, uncertainty_threshold |-> uncertainty_threshold,
     start_time |-> -1, error |-> FALSE, pc |-> "out", body |-> "returns",
     query |-> NoQuery]

elapsed(self) == IF self.start_time = -1 THEN 0 ELSE clock - self.start_time

timed_out(self) == elapsed(self) > self.timeout

had_error(self) == self.error

should_block(self, result) ==
    IF had_error(self) THEN TRUE
    ELSE IF timed_out(self) THEN TRUE
    ELSE IF result.isNone THEN TRUE
    ELSE FALSE

blocked_response(self) ==
    IF had_error(self) THEN FailClosedResponse("EXCEPTION")
    ELSE IF timed_out(self) THEN FailClosedResponse("TIMEOUT")
    ELSE FailClosedResponse("UNCERTAINTY")

\* __enter__ that also forgets the error of an earlier block
GuardEnter_ClearsError(body) ==
    /\ CallerIdle
    /\ guard' = [guard EXCEPT !.start_time = clock, !.pc = "in", !.body = body,
                              !.error = FALSE, !.query = NoQuery]
    /\ UNCHANGED <<engine, call, clock, wrapper, fw, validation, chain, audit, limiter, voice>>

\* __enter__, entering a with block whose body ends as `body`
GuardEnter(body) ==
    /\ CallerIdle
    /\ guard' = [guard EXCEPT !.start_time = clock, !.pc = "in", !.body = body,
                              !.query = NoQuery]
    /\ UNCHANGED <<engine, call, clock, wrapper, fw, validation, chain, audit, limiter, voice>>

\* __exit__ at the end of the with block; an exception is recorded and
\* suppressed
GuardExit ==
    /\ guard.pc = "in"
    /\ guard.body # "stalls"
    /\ guard' = [guard EXCEPT !.pc = "out",
                              !.error = IF guard.body = "raises" THEN TRUE ELSE @,
                              !.query = NoQuery]
    /\ UNCHANGED <<engine, call, clock, wrapper, fw, validation, chain, audit, limiter, voice>>

\* guard.should_block(result), inside or after the with block
GuardShouldBlock(result) ==
    /\ call.op = "none" /\ wrapper.pc = "idle" /\ validation.op = "none"
    /\ guard.start_time # -1
    /\ guard.pc = "in" => guard.body = "returns"
    /\ guard' = [guard EXCEPT !.query =
                    [q |-> "should_block", result |-> result,
                     answer |-> should_block(guard, result), reason |-> "",
                     at |-> clock]]
    /\ UNCHANGED <<engine, call, clock, wrapper, fw, validation, chain, audit, limiter, voice>>

\* guard.blocked_response
GuardBlockedResponse ==
    /\ call.op = "none" /\ wrapper.pc = "idle" /\ validation.op = "none"
    /\ guard.start_time # -1
    /\ guard.pc = "in" => guard.body = "returns"
    /\ guard' = [guard EXCEPT !.query =
                    [q |-> "blocked_response", result |-> NoneValue,
                     answer |-> blocked_response(guard).blocked,
                     reason |-> blocked_response(guard).reason,
                     at |-> clock]]
    /\ UNCHANGED <<engine, call, clock, wrapper, fw, validation, chain, audit, limiter, voice>>

(***************************************************************************)
(* RateLimiter (ios-sdk/middleware/fail_closed.py).  Times are in half     *)
(* seconds: time.time() is self.now, a minute is 120 and a second is 2.    *)
(* `granted` keeps the times of all calls answered True.                   *)
(***************************************************************************)
\* number of check() calls a run makes
MaxChecks == 4

RateLimiter(requests_per_minute, burst_limit) ==
    [requests_per_minute |-> requests_per_minute, burst_limit |-> burst_limit,
     request_times |-> <<>>, now |-> 0, checks |-> 0, answer |-> "none",
     granted |-> <<>>]

\* how far time.time() has moved on since the previous call
Delays == {0, 1, 2, 118, 119, 120}

\* number of the times of a list that are later than `after`
Since(times, after) == Len(SelectSeq(times, LAMBDA t : t > after))

\* RateLimiter.check that allows a call when the count equals the limit
check_OffByOne(self, now) ==
    LET minute_ago == now - 120
        request_times == SelectSeq(self.request_times, LAMBDA t : t > minute_ago)
        second_ago == now - 2
        recent_requests == Since(request_times, second_ago)
        cleaned == [self EXCEPT !.request_times = request_times, !.now = now,
                                !.checks = @ + 1]
    IN  IF recent_requests > self.burst_limit
        THEN [cleaned EXCEPT !.answer = "RATE_LIMIT"]
        ELSE IF Len(request_times) > self.requests_per_minute
        THEN [cleaned EXCEPT !.answer = "RATE_LIMIT"]
        ELSE [cleaned EXCEPT !.request_times = Append(request_times, now),
                             !.answer = "True", !.granted = Append(@, now)]

\* RateLimiter.check at time `now`
check(self, now) ==
    LET minute_ago == now - 120
        request_times == SelectSeq(self.request_times, LAMBDA t : t > minute_ago)
        second_ago == now - 2
        recent_requests == Since(request_times, second_ago)
        cleaned == [self EXCEPT !.request_times = request_times, !.now = now,
                                !.checks = @ + 1]
    IN  IF recent_requests >= self.burst_limit
        THEN [cleaned EXCEPT !.answer = "RATE_LIMIT"]
        ELSE IF Len(request_times) >= self.requests_per_minute
        THEN [cleaned EXCEPT !.answer = "RATE_LIMIT"]
        ELSE [cleaned EXCEPT !.request_times = Append(request_times, now),
                             !.answer = "True", !.granted = Append(@, now)]

\* a call of check() after time.time() has moved on by `delay`
Check(delay) ==
    /\ limiter.checks < MaxChecks
    /\ limiter' = check(limiter, limiter.now + delay)
    /\ UNCHANGED <<engine, call, clock, wrapper, guard, fw, validation, chain, audit, voice>>

(***************************************************************************)
(* AVRTFirewall of the voice-first package (src/middleware.py in src/).    *)
(***************************************************************************)
\* AVRTFirewall.__init__ with config strict_mode and log_all_interactions,
\* followed by set_llm_function unless llm_function is "none"; an LLM
\* function is "raises" or the response it gives to every prompt
VoiceFirewall(strict_mode, log_all_interactions, llm_function) ==
    [strict_mode |-> strict_mode, log_all_interactions |-> log_all_interactions,
     llm_function |-> llm_function, interaction_history |-> <<>>]

(***************************************************************************)
(* THT validation.  A validation is the three checks, confidence3 (the     *)
(* number of passing checks, confidence = confidence3 / 3) and the issues. *)
(***************************************************************************)
AnyIn(patterns, text) == Count(patterns, text) > 0

BoolCount(b) == IF b THEN 1 ELSE 0

\* a THT result whose compliance looks at the confidence only
THTResult_ConfidenceOnly(truth, honesty, transparency, threshold10) ==
    LET confidence3 == BoolCount(truth) + BoolCount(honesty) + BoolCount(transparency)
    IN  [truth_verified |-> truth, honesty_verified |-> honesty,
         transparency_verified |-> transparency,
         confidence3 |-> confidence3,
         is_compliant |-> 10 * confidence3 >= 3 * threshold10,
         issues |-> (IF truth THEN <<>> ELSE <<"Truth verification failed">>)
                    \o (IF honesty THEN <<>> ELSE <<"Honesty check failed">>)
                    \o (IF transparency THEN <<>> ELSE <<"Transparency check failed">>)]

THTResult(truth, honesty, transparency, threshold10) ==
    LET confidence3 == BoolCount(truth) + BoolCount(honesty) + BoolCount(transparency)
    IN  [truth_verified |-> truth, honesty_verified |-> honesty,
         transparency_verified |-> transparency,
         confidence3 |-> confidence3,
         is_compliant |-> truth /\ honesty /\ transparency
                          /\ 10 * confidence3 >= 3 * threshold10,
         issues |-> (IF truth THEN <<>> ELSE <<"Truth verification failed">>)
                    \o (IF honesty THEN <<>> ELSE <<"Honesty check failed">>)
                    \o (IF transparency THEN <<>> ELSE <<"Transparency check failed">>)]

NoTHT == THTResult(TRUE, TRUE, TRUE, 8)

\* THTService (ios-sdk/backend/services/tht_service.py), threshold 0.8
THTService_validate(text) ==
    LET text_lower == lower(text)
        false_patterns ==
            <<"definitely", "absolutely certain", "100% guarantee", "always true",
              "never wrong", "guaranteed to work", "everyone knows", "obviously",
              "undeniably">>
        dishonest_patterns ==
            <<"just between us", "don't tell", "keep this secret", "you can trust me",
              "believe me", "trust me on this", "off the record", "confidentially">>
        transparent_markers ==
            <<"because", "the reason", "this is based on", "according to",
              "evidence suggests", "research shows", "in my understanding",
              "i believe", "it appears that", "based on", "considering">>
        claim_patterns ==
            <<"is", "are", "will", "should", "must", "can", "cannot", "always", "never">>
        has_claims == AnyIn(claim_patterns, text_lower)
        has_transparency == AnyIn(transparent_markers, text_lower)
        transparency ==
            IF has_claims
            THEN IF len(text) < 50 THEN TRUE
                 ELSE IF ~has_transparency THEN FALSE ELSE TRUE
            ELSE TRUE
    IN  THTResult(~AnyIn(false_patterns, text_lower),
                  ~AnyIn(dishonest_patterns, text_lower),
                  transparency, 8)

\* THTValidator (middleware.py); THTValidation.is_compliant compares with 0.8
THTValidator_validate(text) ==
    LET text_lower == lower(text)
        false_patterns ==
            <<"definitely", "absolutely certain", "100% guarantee", "always true",
              "never wrong">>
        dishonest_patterns ==
            <<"just between us", "don't tell", "keep this secret", "you can trust me",
              "believe me">>
        transparent_markers ==
            <<"because", "the reason", "this is based on", "according to",
              "evidence suggests">>
        claim_patterns == <<"is", "are", "will", "should">>
        has_claims == AnyIn(claim_patterns, text_lower)
        has_transparency == AnyIn(transparent_markers, text_lower)
    IN  THTResult(~AnyIn(false_patterns, text_lower),
                  ~AnyIn(dishonest_patterns, text_lower),
                  IF has_claims THEN has_transparency \/ len(text) < 50 ELSE TRUE,
                  8)

(***************************************************************************)
(* SPIEL scoring of the firewall (middleware.py SPIELAnalyzer) and of the  *)
(* backend (ios-sdk/backend/services/spiel_service.py SPIELService).       *)
(***************************************************************************)
\* SPIELScore whose __post_init__ leaves the default composite of 0.0
SPIELScore_NoPostInit(s, p, i, e, l) ==
    [safety |-> s, personalization |-> p, integrity |-> i, ethics |-> e,
     logic |-> l, composite5 |-> 0]

SPIELScore(s, p, i, e, l) ==
    [safety |-> s, personalization |-> p, integrity |-> i, ethics |-> e,
     logic |-> l, composite5 |-> s + p + i + e + l]

NoScore == SPIELScore(0, 0, 0, 0, 0)

\* SPIELScore.is_passing(threshold)
is_passing(score, threshold) ==
    /\ score.safety >= threshold
    /\ score.integrity >= threshold
    /\ score.ethics >= threshold
    /\ score.composite5 >= 5 * threshold

\* SPIELAnalyzer.analyze; text.count(...) looks at the text as given, not
\* lower-cased
SPIELAnalyzer_analyze(text) ==
    LET text_lower == lower(text)
        harmful_patterns ==
            <<"harm", "hurt", "attack", "kill", "destroy", "hate", "violence",
              "dangerous", "threat">>
        personal_markers == <<"you", "your", "i can help", "let me">>
        dishonest_patterns ==
            <<"just trust me", "believe me", "i guarantee", "secret",
              "don't tell anyone">>
        unethical_patterns ==
            <<"cheat", "lie", "deceive", "manipulate", "exploit", "abuse">>
        short == IF StripLen(text) < 5 THEN 88 - 20 ELSE 88
        logic == IF In("because", text) \/ In("therefore", text) THEN short + 5 ELSE short
    IN  SPIELScore(Max(0, Min(100, 100 - 10 * Count(harmful_patterns, text_lower))),
                   Min(100, 85 + 5 * Count(personal_markers, text_lower)),
                   Max(0, 90 - 15 * Count(dishonest_patterns, text_lower)),
                   Max(0, 95 - 20 * Count(unethical_patterns, text_lower)),
                   Max(0, Min(100, logic)))

\* SPIELService.harmful_patterns
ServiceHarmful ==
    <<"harm", "hurt", "attack", "kill", "destroy", "hate", "violence",
      "dangerous", "threat", "murder", "weapon", "bomb", "explosive", "poison">>

\* SPIELService._analyze_safety that takes the magnitude of a negative score
SPIELService_analyze_safety_Abs(text) ==
    LET score == 100 - 15 * Count(ServiceHarmful, lower(text))
    IN  Min(100, IF score < 0 THEN 0 - score ELSE score)

\* SPIELService._analyze_safety
SPIELService_analyze_safety(text) ==
    Max(0, Min(100, 100 - 15 * Count(ServiceHarmful, lower(text))))

\* SPIELService.analyze with the default configuration (85 / 90 / 80)
SPIELService_analyze(text, context) ==
    LET text_lower == lower(text)
        dishonest_patterns ==
            <<"just trust me", "believe me", "i guarantee", "secret",
              "don't tell anyone", "between us", "definitely", "absolutely certain",
              "100% guarantee">>
        unethical_patterns ==
            <<"cheat", "lie", "deceive", "manipulate", "exploit", "abuse", "steal",
              "fraud", "illegal", "scam">>
        personal_markers ==
            <<"you", "your", "i can help", "let me", "would you like",
              "i understand", "here's what">>
        logic_markers ==
            <<"because", "therefore", "thus", "consequently", "as a result",
              "due to", "since", "given that">>
        personal == 80 + 3 * Count(personal_markers, text_lower)
        marked == 85 + 3 * Count(logic_markers, text_lower)
        short == IF StripLen(text) < 10 THEN marked - 20 ELSE marked
        words == SumWords(text.frags)
        unique == SumUnique(text.frags)
        \* len(words) > 5 and len(set(words)) / len(words) < 0.5
        logic == IF words > 5 /\ 2 * unique < words THEN short - 15 ELSE short
        score == SPIELScore(SPIELService_analyze_safety(text),
                            Min(100, IF context = "prefs" THEN personal + 5 ELSE personal),
                            Max(0, 95 - 15 * Count(dishonest_patterns, text_lower)),
                            Max(0, 100 - 20 * Count(unethical_patterns, text_lower)),
                            Max(0, Min(100, logic)))
    IN  [score |-> score,
         is_passing |-> /\ score.safety >= 85
                        /\ score.integrity >= 80
                        /\ score.ethics >= 90
                        /\ score.composite5 >= 5 * 85]

\* config["confidence_threshold"] of a THTService, in tenths
ConfidenceThresholds == {5, 8, 11}

\* a call of THTService.validate on a service configured with a confidence
\* threshold: text[:100] raises on None
ThtValidate(text, threshold10) ==
    /\ CallerIdle
    /\ LET checks == THTService_validate(text)
       IN  call' = [op |-> "tht_validate", text |-> text, context |-> "None",
                    outcome |-> IF text.isNone THEN "raised" ELSE "returned",
                    result |-> [confidence_threshold10 |-> threshold10,
                                tht |-> IF text.isNone THEN NoTHT
                                        ELSE THTResult(checks.truth_verified,
                                                       checks.honesty_verified,
                                                       checks.transparency_verified,
                                                       threshold10)]]
    /\ UNCHANGED <<engine, clock, wrapper, guard, fw, validation, chain, audit, limiter, voice>>

\* a call of SPIELService.analyze: text[:100] raises on None, context.get
\* on a context that is not a dict
ServiceAnalyze(text, context) ==
    /\ CallerIdle
    /\ call' = [op |-> "analyze", text |-> text, context |-> context,
                outcome |-> IF text.isNone \/ context = "str" THEN "raised" ELSE "returned",
                result |-> IF text.isNone \/ context = "str"
                           THEN [score |-> NoScore, is_passing |-> FALSE]
                           ELSE SPIELService_analyze(text, context)]
    /\ UNCHANGED <<engine, clock, wrapper, guard, fw, validation, chain, audit, limiter, voice>>

\* a call of SPIELAnalyzer.analyze: text.lower() raises on None
AnalyzerAnalyze(text) ==
    /\ CallerIdle
    /\ call' = [op |-> "score", text |-> text, context |-> "None",
                outcome |-> IF text.isNone THEN "raised" ELSE "returned",
                result |-> IF text.isNone THEN NoScore ELSE SPIELAnalyzer_analyze(text)]
    /\ UNCHANGED <<engine, clock, wrapper, guard, fw, validation, chain, audit, limiter, voice>>

(***************************************************************************)
(* AVRTFirewall (middleware.py).  An audit entry keeps the status and      *)
(* is_safe of the validation result it refers to.                          *)
(***************************************************************************)
SafeAlternative ==
    Str({"I apologize, but I need to rephrase that response to ensure it meets AVRT safety standards. How can I help you in a constructive way?"}, 0)

AVRTConfig(safety_threshold, ethics_threshold, integrity_threshold, enable_audit_trail) ==
    [safety_threshold |-> safety_threshold, ethics_threshold |-> ethics_threshold,
     integrity_threshold |-> integrity_threshold,
     enable_audit_trail |-> enable_audit_trail]

AVRTFirewall(config, enable_tht) ==
    [config |-> config, tht_validator |-> enable_tht, audit_trail |-> <<>>]

ValidationResult(op, input, output, outcome, status, is_safe, message, score, tht, violations, reason) ==
    [op |-> op, input |-> input, output |-> output, outcome |-> outcome,
     status |-> status, is_safe |-> is_safe, message |-> message,
     spiel_score |-> score, tht_validation |-> tht,
     violations |-> violations, reason |-> reason]

NoValidation ==
    ValidationResult("none", None, None, "none", "none", FALSE, None, NoScore,
                     <<>>, <<>>, "")

\* keep the last max_entries entries
max_entries == 1000

\* list[-n:] for n >= 0; list[-0:] is list[0:], the whole list
Last(list, n) == IF n > 0 /\ Len(list) > n THEN SubSeq(list, Len(list) - n + 1, Len(list)) ELSE list

_add_audit_entry(self, result) ==
    LET appended == Append(self.audit_trail,
                           [status |-> result.status, is_safe |-> result.is_safe])
    IN  IF Len(appended) > max_entries THEN Last(appended, max_entries) ELSE appended

\* a THT failure that overrides the SPIEL block
Status_Downgrade(blocked, tht_failed) ==
    IF tht_failed THEN "WARNING" ELSE IF blocked THEN "BLOCKED" ELSE "SAFE"

\* status after the SPIEL threshold check and the THT compliance check
Status(blocked, tht_failed) ==
    IF blocked THEN "BLOCKED" ELSE IF tht_failed THEN "WARNING" ELSE "SAFE"

\* _generate_safe_alternative that hands the text back
_generate_safe_alternative_Echo(text, violations) == text

\* AVRTFirewall._generate_safe_alternative: a fixed text
_generate_safe_alternative(text, violations) == SafeAlternative

\* the decision part of AVRTFirewall.validate; tht_validation is <<>> when
\* THT is disabled and <<validation>> otherwise
validate(self, input, output) ==
    LET spiel_score == SPIELAnalyzer_analyze(output)
        tht_validation == IF self.tht_validator
                          THEN <<THTValidator_validate(output)>> ELSE <<>>
        blocked == ~is_passing(spiel_score, self.config.safety_threshold)
        is_safe == ~blocked
        spiel_violations ==
            IF blocked
            THEN (IF spiel_score.safety < self.config.safety_threshold
                  THEN <<"HARMFUL_CONTENT">> ELSE <<>>)
                 \o (IF spiel_score.ethics < self.config.ethics_threshold
                     THEN <<"ETHICAL_VIOLATION">> ELSE <<>>)
                 \o (IF spiel_score.integrity < self.config.integrity_threshold
                     THEN <<"MANIPULATION">> ELSE <<>>)
            ELSE <<>>
        tht_failed == tht_validation # <<>> /\ ~tht_validation[1].is_compliant
        status == Status(blocked, tht_failed)
        reason == IF blocked THEN "SPIEL score below safety threshold"
                  ELSE IF tht_failed THEN "THT compliance issues" ELSE "None"
        violations == IF tht_failed /\ ~is_safe
                      THEN Append(spiel_violations, "ETHICAL_VIOLATION")
                      ELSE spiel_violations
        final_message == IF is_safe THEN output
                         ELSE _generate_safe_alternative(output, violations)
    IN  ValidationResult("validate", input, output, "returned", status, is_safe,
                         final_message, spiel_score, tht_validation, violations, reason)

\* number of validations a run makes on one firewall
MaxCalls == 2

\* AVRTFirewall.validate; len(None) raises before anything is computed
Validate(input, output) ==
    /\ CallerIdle
    /\ Len(fw.audit_trail) < MaxCalls
    /\ IF input.isNone \/ output.isNone
       THEN /\ validation' = [NoValidation EXCEPT !.op = "validate", !.input = input,
                                                  !.output = output, !.outcome = "raised"]
            /\ fw' = fw
       ELSE LET result == validate(fw, input, output)
            IN  /\ validation' = result
                /\ fw' = IF fw.config.enable_audit_trail
                         THEN [fw EXCEPT !.audit_trail = _add_audit_entry(fw, result)]
                         ELSE fw
    /\ UNCHANGED <<engine, call, clock, wrapper, guard, chain, audit, limiter, voice>>

\* AVRTFirewall.get_statistics (middleware.py): the counts it reports
AVRTFirewall_get_statistics(self) ==
    [total_validations |-> Len(self.audit_trail),
     blocked_count |-> Len(SelectSeq(self.audit_trail, LAMBDA e : ~e.is_safe))]

(***************************************************************************)
(* POST /validate (ios-sdk/backend/routers/validation.py).  The request    *)
(* schema makes input a non-empty string and output an optional string.    *)
(***************************************************************************)
validate_interaction(input, output, context) ==
    LET output_text == IF output.isNone \/ len(output) = 0 THEN input ELSE output
        spiel_result == SPIELService_analyze(output_text, context)
        tht_result == THTService_validate(output_text)
        blocked == ~spiel_result.is_passing
        is_safe == ~blocked
        spiel_violations ==
            IF blocked
            THEN (IF spiel_result.score.safety < 85 THEN <<"harmful_content">> ELSE <<>>)
                 \o (IF spiel_result.score.ethics < 90 THEN <<"ethical_violation">> ELSE <<>>)
                 \o (IF spiel_result.score.integrity < 80 THEN <<"manipulation">> ELSE <<>>)
            ELSE <<>>
        tht_failed == ~tht_result.is_compliant
        status == Status(blocked, tht_failed)
        reason == IF blocked THEN "SPIEL score below safety threshold"
                  ELSE IF tht_failed THEN "THT compliance issues" ELSE "None"
        violations == IF tht_failed /\ ~is_safe
                      THEN Append(spiel_violations, "ethical_violation")
                      ELSE spiel_violations
        message == IF is_safe THEN output_text ELSE SafeAlternative
    IN  ValidationResult("validate_interaction", input, output_text, "returned", status,
                         is_safe, message, spiel_result.score, <<tht_result>>,
                         violations, reason)

ValidateInteraction(input, output, context) ==
    /\ CallerIdle
    /\ ~input.isNone
    /\ len(input) >= 1
    /\ validation' = validate_interaction(input, output, context)
    /\ UNCHANGED <<engine, call, clock, wrapper, guard, fw, chain, audit, limiter, voice>>

(***************************************************************************)
(* HashService (ios-sdk/backend/services/hash_service.py).                 *)
(* A string is a sequence of tokens.  SHA-256 is taken to be free of       *)
(* collisions: the digest of a string is one token that carries the string *)
(* hashed, so two digests are equal exactly when their inputs are.         *)
(***************************************************************************)
Lit(s) == << <<"lit", s>> >>

sha256(data) == << <<"sha", data>> >>

EntryHashes == {sha256(Lit("entry1")), sha256(Lit("entry2")), sha256(Lit("tampered"))}

\* a chain hash that does not link an entry to the hash before it
RECURSIVE ChainFrom_Unlinked(_, _)
ChainFrom_Unlinked(chain_hash, hashes) ==
    IF hashes = <<>> THEN chain_hash
    ELSE ChainFrom_Unlinked(sha256(Lit("genesis") \o Lit("|") \o Head(hashes)), Tail(hashes))

\* a chain hash that joins the previous hash and the entry without the "|"
RECURSIVE ChainFrom_NoSeparator(_, _)
ChainFrom_NoSeparator(chain_hash, hashes) ==
    IF hashes = <<>> THEN chain_hash
    ELSE ChainFrom_NoSeparator(sha256(chain_hash \o Head(hashes)), Tail(hashes))

RECURSIVE ChainFrom(_, _)
ChainFrom(chain_hash, hashes) ==
    IF hashes = <<>> THEN chain_hash
    ELSE ChainFrom(sha256(chain_hash \o Lit("|") \o Head(hashes)), Tail(hashes))

generate_chain_hash(hashes) == ChainFrom(Lit("genesis"), hashes)

verify_chain(hashes, expected_chain_hash) ==
    generate_chain_hash(hashes) = expected_chain_hash

HashLists == UNION { [1..n -> EntryHashes] : n \in 0..MaxChain }

NoChain ==
    [op |-> "none", hashes |-> <<>>, chain_hash |-> Lit(""), checked |-> <<>>,
     answer |-> FALSE]

\* chain_hash = generate_chain_hash(hashes)
GenerateChainHash(hashes) ==
    /\ chain' = [op |-> "generate_chain_hash", hashes |-> hashes,
                 chain_hash |-> generate_chain_hash(hashes),
                 checked |-> <<>>, answer |-> FALSE]
    /\ UNCHANGED <<engine, call, clock, wrapper, guard, fw, validation, audit, limiter, voice>>

\* verify_chain(hashes, chain_hash) against the chain hash generated before
VerifyChain(hashes) ==
    /\ chain.op # "none"
    /\ chain' = [chain EXCEPT !.op = "verify_chain", !.checked = hashes,
                              !.answer = verify_chain(hashes, chain.chain_hash)]
    /\ UNCHANGED <<engine, call, clock, wrapper, guard, fw, validation, audit, limiter, voice>>

(***************************************************************************)
(* The audit histories: audit_store (ios-sdk/backend/routers/audit.py),    *)
(* AVRTFirewall.audit_trail (middleware.py) and interaction_history        *)
(* (src/middleware.py).  All three append and then keep the last CAP       *)
(* entries.  A list is an object: audit_store is cut in place              *)
(* (audit_store[:] = ...), the two firewall histories are rebound to a     *)
(* new list (self.x = self.x[-CAP:]).  lists holds the list objects, ref   *)
(* the object the name is bound to.  The capacities 10000 and 1000 are     *)
(* scaled down.                                                            *)
(***************************************************************************)
\* capacity of audit_store (10000 in the code)
AuditStoreCap == 3

\* capacity of audit_trail and interaction_history (1000 in the code)
HistoryCap == 2

\* appends a run makes to one history
MaxAppends == 5

Histories == {"audit_store", "audit_trail", "interaction_history"}

Capacity(history) == IF history = "audit_store" THEN AuditStoreCap ELSE HistoryCap

\* an entry carries the request id it was made with and its integrity hash
AuditEntry(request_id, integrity_hash) ==
    [request_id |-> request_id, integrity_hash |-> integrity_hash]

\* history[-cap:] that keeps the oldest entries instead of the newest
Retain_KeepOldest(history, entry, cap) ==
    LET appended == Append(history, entry)
    IN  IF Len(appended) > cap THEN SubSeq(appended, 1, cap) ELSE appended

\* history.append(entry); if len(history) > cap: history = history[-cap:]
Retain(history, entry, cap) ==
    LET appended == Append(history, entry)
    IN  IF Len(appended) > cap THEN Last(appended, cap) ELSE appended

Threads == {1, 2}

NoThread == [pc |-> "idle", entry |-> AuditEntry(0, Lit("")), obj |-> 0, tmp |-> <<>>]

NoReader ==
    [pc |-> "idle", op |-> "none", status |-> 0, chain_hash |-> Lit(""),
     entries |-> <<>>, total_count |-> 0, valid |-> FALSE, limit |-> 0]

AuditState(history, logging) ==
    [history |-> history, cap |-> Capacity(history), logging |-> logging,
     lists |-> << <<>> >>, ref |-> 1, issued |-> 0, appended |-> <<>>,
     threads |-> [t \in Threads |-> NoThread], reader |-> NoReader]

NoAudit == AuditState("audit_store", TRUE)

\* the list the history's name is bound to
Current(a) == a.lists[a.ref]

AuditIdle ==
    /\ \A t \in Threads : audit.threads[t].pc = "idle"
    /\ audit.reader.pc = "idle"

\* one whole call of add_audit_entry / _add_audit_entry / _log_interaction,
\* no other call running; _log_interaction does nothing unless
\* log_all_interactions is set
AddAuditEntry(integrity_hash) ==
    /\ AuditIdle
    /\ audit.issued < MaxAppends
    /\ LET entry == AuditEntry(audit.issued + 1, integrity_hash)
           retained == Retain(Current(audit), entry, audit.cap)
           cut == Len(Current(audit)) + 1 > audit.cap
       IN  IF ~audit.logging
           THEN audit' = [audit EXCEPT !.issued = @ + 1]
           ELSE IF cut /\ audit.history # "audit_store"
           THEN audit' = [audit EXCEPT
                             !.issued = @ + 1,
                             !.lists = Append([@ EXCEPT ![audit.ref] = Append(@, entry)],
                                              retained),
                             !.ref = Len(audit.lists) + 1,
                             !.appended = Append(@, entry)]
           ELSE audit' = [audit EXCEPT !.issued = @ + 1,
                                       !.lists[audit.ref] = retained,
                                       !.appended = Append(@, entry)]
    /\ UNCHANGED <<engine, call, clock, wrapper, guard, fw, validation, chain, limiter, voice>>

(***************************************************************************)
(* The same call made by threads.  No lock is taken, so a thread can be    *)
(* preempted between any two of its steps: reading the name, append, the   *)
(* length test, taking the slice, storing the slice.                       *)
(***************************************************************************)
OtherFields == <<engine, call, clock, wrapper, guard, fw, validation, chain, limiter, voice>>

\* thread t enters the call with a new entry and reads the name of the list
ThreadCall(t, integrity_hash) ==
    /\ audit.threads[t].pc = "idle"
    /\ audit.issued < MaxAppends
    /\ audit' = [audit EXCEPT
                    !.issued = @ + 1,
                    !.threads[t] = [pc |-> "append",
                                    entry |-> AuditEntry(audit.issued + 1, integrity_hash),
                                    obj |-> audit.ref, tmp |-> <<>>]]
    /\ UNCHANGED OtherFields

\* history.append(entry), on the list object read before
ThreadAppend(t) ==
    /\ audit.threads[t].pc = "append"
    /\ audit' = [audit EXCEPT
                    !.lists[audit.threads[t].obj] = Append(@, audit.threads[t].entry),
                    !.appended = Append(@, audit.threads[t].entry),
                    !.threads[t].pc = "len"]
    /\ UNCHANGED OtherFields

\* if len(history) > cap
ThreadLen(t) ==
    /\ audit.threads[t].pc = "len"
    /\ audit' = [audit EXCEPT
                    !.threads[t] = IF Len(Current(audit)) > audit.cap
                                   THEN [@ EXCEPT !.pc = "slice"]
                                   ELSE NoThread]
    /\ UNCHANGED OtherFields

\* history[-cap:], a new list
ThreadSlice(t) ==
    /\ audit.threads[t].pc = "slice"
    /\ audit' = [audit EXCEPT !.threads[t].tmp = Last(Current(audit), audit.cap),
                              !.threads[t].pc = "store"]
    /\ UNCHANGED OtherFields

\* audit_store[:] = slice (in place) or self.history = slice (rebinding)
ThreadStore(t) ==
    /\ audit.threads[t].pc = "store"
    /\ IF audit.history = "audit_store"
       THEN audit' = [audit EXCEPT !.lists[audit.ref] = audit.threads[t].tmp,
                                   !.threads[t] = NoThread]
       ELSE audit' = [audit EXCEPT !.lists = Append(@, audit.threads[t].tmp),
                                   !.ref = Len(audit.lists) + 1,
                                   !.threads[t] = NoThread]
    /\ UNCHANGED OtherFields

(***************************************************************************)
(* The read handlers of ios-sdk/backend/routers/audit.py.  reader holds    *)
(* the handler's position and, once it has answered, its response.         *)
(***************************************************************************)
\* [e['integrity_hash'] for e in entries]
IntegrityHashes(entries) == [i \in 1..Len(entries) |-> entries[i].integrity_hash]

\* [e for e in entries if e['request_id'] in request_ids]
RECURSIVE WithRequestIds(_, _)
WithRequestIds(entries, request_ids) ==
    IF entries = <<>> THEN <<>>
    ELSE (IF Head(entries).request_id \in request_ids THEN <<Head(entries)>> ELSE <<>>)
         \o WithRequestIds(Tail(entries), request_ids)

Limits == {0, 1, 100}

RequestIdLists == {ids \in SUBSET (1..MaxAppends) : Cardinality(ids) <= 2}

\* the integrity hash of the entry made for a request: no two entries share one
IntegrityHashOf(request_id) == sha256(Lit(ToString(request_id)))

ExpectedHashes == {Lit("genesis"), generate_chain_hash(<<IntegrityHashOf(1)>>)}

\* GET /audit without filters: the store is copied first, and the entries
\* and the chain hash both come from the copy
get_audit_trail(limit) ==
    /\ audit.history = "audit_store"
    /\ audit.reader.pc = "idle"
    /\ LET filtered_entries == Last(Current(audit), limit)
       IN  audit' = [audit EXCEPT
                        !.reader = [NoReader EXCEPT
                                       !.pc = "done", !.op = "get_audit_trail",
                                       !.status = 200, !.limit = limit,
                                       !.entries = filtered_entries,
                                       !.total_count = Len(filtered_entries),
                                       !.chain_hash = generate_chain_hash(
                                                          IntegrityHashes(filtered_entries))]]
    /\ UNCHANGED OtherFields

\* POST /audit/verify
verify_audit_integrity(request_ids, expected_chain_hash) ==
    /\ audit.history = "audit_store"
    /\ audit.reader.pc = "idle"
    /\ LET entries == WithRequestIds(Current(audit), request_ids)
           computed_hash == generate_chain_hash(IntegrityHashes(entries))
       IN  audit' = [audit EXCEPT
                        !.reader =
                            IF Len(entries) # Cardinality(request_ids)
                            THEN [NoReader EXCEPT !.pc = "done", !.status = 400,
                                                  !.op = "verify_audit_integrity"]
                            ELSE [NoReader EXCEPT
                                     !.pc = "done", !.op = "verify_audit_integrity",
                                     !.status = 200,
                                     !.entries = entries,
                                     !.total_count = Len(entries),
                                     !.chain_hash = computed_hash,
                                     !.valid = (computed_hash = expected_chain_hash)]]
    /\ UNCHANGED OtherFields

\* GET /audit/export, first part: the chain hash is computed from the store
ExportChainHash ==
    /\ audit.history = "audit_store"
    /\ audit.reader.pc = "idle"
    /\ audit' = [audit EXCEPT
                    !.reader = [NoReader EXCEPT
                                   !.pc = "respond", !.op = "export_audit_trail",
                                   !.chain_hash = generate_chain_hash(
                                                      IntegrityHashes(Current(audit)))]]
    /\ UNCHANGED OtherFields

\* GET /audit/export, second part: the response takes the entries and their
\* count from the store as it is now
ExportRespond ==
    /\ audit.reader.pc = "respond"
    /\ audit' = [audit EXCEPT !.reader.pc = "done",
                              !.reader.status = 200,
                              !.reader.entries = Current(audit),
                              !.reader.total_count = Len(Current(audit))]
    /\ UNCHANGED OtherFields

\* the client has the response
ReaderReturns ==
    /\ audit.reader.pc = "done"
    /\ audit' = [audit EXCEPT !.reader = NoReader]
    /\ UNCHANGED OtherFields

\* the caller has taken the result of its last call
CallerContinues ==
    /\ \/ call.op # "none"
       \/ wrapper.pc = "done"
       \/ validation.op # "none"
       \/ guard.query.q # "none"
    /\ call' = NoCall
    /\ wrapper' = IF wrapper.pc = "done" THEN NoWrapper ELSE wrapper
    /\ validation' = NoValidation
    /\ guard' = [guard EXCEPT !.query = NoQuery]
    /\ UNCHANGED <<engine, clock, fw, chain, audit, limiter, voice>>

(***************************************************************************)
(* The voice firewall at work (src/middleware.py, src/voice_input.py,      *)
(* src/ethics_layer.py, src/response_filter.py of the voice-first          *)
(* package).  The SPIEL scores of the ethics layer are in twentieths, its  *)
(* overall score in 400ths; the THT scores of the response filter are in   *)
(* tenths and their sum stands for the average.  A caller's context is     *)
(* "None", "is_first" ({'is_first_interaction': True}) or "not_first"      *)
(* ({'is_first_interaction': False}); a final response is a tuple that     *)
(* names the generator and what it was given.                              *)
(***************************************************************************)
\* VoiceInput.process_voice_input: what the firewall's decision uses of it
process_voice_input(text) ==
    LET text_lower == lower(text)
        trauma_indicators ==
            SelectSeq(<<"ptsd", "trauma", "flashback", "nightmare", "trigger", "abuse",
                        "assault", "violence", "loss", "grief", "death", "accident">>,
                      LAMBDA p : In(p, text_lower))
        urgency_count ==
            Count(<<"emergency", "urgent", "help", "crisis", "immediate", "now",
                    "hurry", "quick", "asap", "suicide", "harm">>, text_lower)
        has_critical ==
            AnyIn(<<"suicide", "harm", "kill", "emergency", "crisis">>, text_lower)
    IN  [trauma_indicators |-> trauma_indicators,
         urgency_level |-> IF has_critical \/ urgency_count >= 3 THEN "critical"
                           ELSE IF urgency_count >= 1 THEN "elevated" ELSE "normal",
         trauma_aware |-> trauma_indicators # <<>>]

\* EthicsLayer.evaluate_spiel with the default safety_threshold 0.8, for a
\* context that has user_preferences and none of trauma_aware_response,
\* previous_persona, data_handling_declared and evidence_provided
evaluate_spiel(text, context) ==
    LET text_lower == lower(text)
        V(category, severity) == [category |-> category, severity |-> severity]
        If(b, violation) == IF b THEN <<violation>> ELSE <<>>
        Score(violations, step) == Max(0, Min(20, 20 - Len(violations) * step))
        safety ==
            If(AnyIn(<<"harm", "hurt", "kill", "suicide", "weapon", "bomb", "attack",
                       "violence", "abuse", "illegal", "exploit">>, text_lower),
               V("safety", "CRITICAL"))
            \o If(context.trauma_indicators # <<>>
                  /\ AnyIn(<<"death", "loss", "trauma", "ptsd">>, text_lower),
                  V("safety", "HIGH"))
        personalization ==
            If(context.trauma_indicators # <<>>, V("personalization", "MEDIUM"))
        integrity ==
            If(In("personal_data", text_lower) \/ In("private", text_lower),
               V("integrity", "HIGH"))
        discriminatory ==
            IF AnyIn(<<"inferior", "superior", "better", "worse">>, text_lower)
            THEN Count(<<"race", "gender", "religion", "disability">>, text_lower)
            ELSE 0
        ethics ==
            If(Count(<<"always", "never", "all", "none", "everyone", "nobody",
                       "stereotype", "typical">>, text_lower) >= 2,
               V("ethics", "MEDIUM"))
            \o [k \in 1..discriminatory |-> V("ethics", "CRITICAL")]
        found_fallacies ==
            \/ /\ AnyIn(<<"you are", "you're", "your">>, text_lower)
               /\ AnyIn(<<"stupid", "idiot", "wrong", "bad">>, text_lower)
            \/ (In("either", text_lower) /\ In("or", text_lower))
            \/ In("only two", text_lower)
            \/ /\ AnyIn(<<"imagine", "think about", "feel">>, text_lower)
               /\ AnyIn(<<"tragic", "terrible", "horrible">>, text_lower)
        logic ==
            If(found_fallacies, V("logic", "MEDIUM"))
            \o If(AnyIn(<<"proven", "fact", "always", "never", "impossible">>, text_lower),
                  V("logic", "LOW"))
        violations == safety \o personalization \o integrity \o ethics \o logic
        overall_score == 6 * Score(safety, 6) + 3 * Score(personalization, 4)
                         + 3 * Score(integrity, 4) + 5 * Score(ethics, 5)
                         + 3 * Score(logic, 4)
        critical_violations == SelectSeq(violations, LAMBDA v : v.severity = "CRITICAL")
    IN  [overall_score |-> overall_score,
         passed |-> critical_violations = <<>> /\ overall_score >= 320,
         violations |-> violations,
         scores |-> [safety |-> Score(safety, 6),
                     personalization |-> Score(personalization, 4),
                     integrity |-> Score(integrity, 4),
                     ethics |-> Score(ethics, 5),
                     logic |-> Score(logic, 4)]]

\* ResponseFilter.filter_response with require_ai_disclosure, for metadata
\* without sources_verified.  For the deductions the responses drawn here
\* incur, avg_score >= 0.7 in floating point is sum >= 21 in tenths.
filter_response(response, metadata) ==
    LET response_lower == lower(response)
        words == SumWords(response.frags)
        F(category, severity) == [category |-> category, severity |-> severity]
        If(b, x) == IF b THEN <<x>> ELSE <<>>
        Minus(b, n) == IF b THEN n ELSE 0
        Clamp(score) == Max(0, Min(10, score))
        \* truth
        unsourced ==
            /\ AnyIn(<<"definitely", "certainly", "absolutely", "always", "never",
                       "guaranteed", "proven", "fact", "indisputable">>, response_lower)
            /\ ~metadata.sources_cited
        found_factual ==
            AnyIn(<<"according to", "studies show", "research indicates",
                    "data shows", "statistics">>, response_lower)
        unchecked == found_factual /\ ~metadata.fact_checked
        truth == Clamp(10 - Minus(unsourced, 3) - Minus(unchecked, 2)
                          - Minus(~found_factual /\ words > 50, 1))
        \* honesty
        found_uncertainty ==
            AnyIn(<<"maybe", "perhaps", "possibly", "might", "could", "may", "probably",
                    "likely", "uncertain", "unclear", "unsure">>, response_lower)
        unflagged == metadata.confidence_level \in {"UNKNOWN", "LOW"} /\ ~found_uncertainty
        potential_hallucinations ==
            In("re:year", response) \/ In("re:study", response) \/ In("re:expert", response)
        has_honest_uncertainty ==
            \/ found_uncertainty
            \/ AnyIn(<<"i don't know", "i'm not sure", "unclear">>, response_lower)
        honesty == Clamp(10 - Minus(unflagged, 4) - Minus(potential_hallucinations, 5)
                            - Minus(~has_honest_uncertainty /\ words > 50, 1))
        \* transparency
        undisclosed ==
            ~AnyIn(<<"as an ai", "i am an ai", "i'm an ai", "as a language model",
                     "as an artificial intelligence", "i'm a bot", "i am a bot">>,
                   response_lower)
        important == metadata.is_first_interaction \/ metadata.is_sensitive_topic
        has_reasoning ==
            AnyIn(<<"because", "therefore", "thus", "as a result", "consequently",
                    "this is due to", "the reason", "based on", "given that">>,
                  response_lower)
        is_complex == words > 100 \/ In("inner:.", response)
        process_transparency ==
            AnyIn(<<"analyzed", "considered", "evaluated", "based on">>, response_lower)
        transparency ==
            Clamp(10 - Minus(undisclosed, IF important THEN 4 ELSE 2)
                     - Minus(is_complex /\ ~has_reasoning, 3)
                     - Minus(~process_transparency /\ words > 100, 1))
        flags ==
            If(unsourced, F("truth", "high")) \o If(unchecked, F("truth", "medium"))
            \o If(unflagged, F("honesty", "high"))
            \o If(potential_hallucinations, F("honesty", "critical"))
            \o If(undisclosed /\ important, F("transparency", "high"))
            \o If(is_complex /\ ~has_reasoning, F("transparency", "medium"))
        required_actions ==
            If(unsourced, "cite_sources") \o If(unchecked, "verify_facts")
            \o If(unflagged, "add_uncertainty_language")
            \o If(potential_hallucinations, "verify_specifics")
            \o If(undisclosed /\ important, "add_ai_disclosure")
            \o If(is_complex /\ ~has_reasoning, "add_reasoning")
        \* _apply_automatic_fixes: the disclosure put in front of a response
        \* that is not empty, the note put behind one that lacks uncertainty
        filtered_response ==
            <<"filtered",
              undisclosed /\ important /\ (response.frags # {} \/ response.ws > 0),
              unflagged,
              response>>
        sum == truth + honesty + transparency
    IN  [filtered_response |-> filtered_response,
         passed |-> /\ sum >= 21
                    /\ SelectSeq(flags, LAMBDA f : f.severity = "critical") = <<>>,
         tht_scores |-> [truth |-> truth, honesty |-> honesty,
                         transparency |-> transparency],
         flags |-> flags,
         required_actions |-> required_actions,
         overall_score |-> sum]

\* an input the ethics layer fails that is let through whatever it holds
input_blocked_Never(self, input_ethics) == FALSE

\* the input is refused: the check for critical input violations
input_blocked(self, input_ethics) ==
    /\ ~input_ethics.passed
    /\ \E k \in 1..Len(input_ethics.violations) :
          input_ethics.violations[k].severity = "CRITICAL"
    /\ self.strict_mode

\* _log_interaction that records the interactions that passed only
_log_interaction_PassedOnly(self, interaction) ==
    IF self.log_all_interactions /\ interaction.firewall_passed
    THEN Retain(self.interaction_history,
                [firewall_passed |-> interaction.firewall_passed,
                 blocking_reason |-> interaction.blocking_reason,
                 input_ethics_score |-> interaction.input_ethics_score,
                 output_tht_score |-> interaction.output_tht_score,
                 warnings_count |-> interaction.warnings],
                HistoryCap)
    ELSE self.interaction_history

\* AVRTFirewall._log_interaction: the history it leaves; a score is <<>>
\* for None.  The capacity 1000 is scaled down to HistoryCap.
_log_interaction(self, interaction) ==
    IF self.log_all_interactions
    THEN Retain(self.interaction_history,
                [firewall_passed |-> interaction.firewall_passed,
                 blocking_reason |-> interaction.blocking_reason,
                 input_ethics_score |-> interaction.input_ethics_score,
                 output_tht_score |-> interaction.output_tht_score,
                 warnings_count |-> interaction.warnings],
                HistoryCap)
    ELSE self.interaction_history

\* AVRTFirewall.process_interaction: the outcome, the result and the
\* history the call leaves.  An optional field of the result is <<>> for
\* None and <<value>> otherwise; invoked lists the components the call has
\* run.  re.sub in the voice input raises on a None input.  Each step's
\* value is computed once and bound (x \in {value}).
process_interaction(self, user_input, context) ==
    LET result ==
            [input_ethics_score |-> <<>>, output_tht_score |-> <<>>,
             tht_scores |-> <<>>, flags |-> <<>>, llm_response |-> <<>>,
             output_filtering |-> FALSE, final_response |-> <<>>,
             firewall_passed |-> FALSE, blocking_reason |-> "None",
             warnings |-> 0, invoked |-> <<>>]
        Merged(voice_analysis) ==
            [trauma_indicators |-> voice_analysis.trauma_indicators,
             urgency_level |-> voice_analysis.urgency_level,
             trauma_aware |-> voice_analysis.trauma_aware,
             is_first_interaction |->
                 IF context = "None" THEN Len(self.interaction_history) = 0
                 ELSE context = "is_first"]
        llm_response ==
            IF self.llm_function = "none" THEN Str({Passthrough}, 0)
            ELSE IF self.llm_function = "raises" THEN Str({Apology}, 0)
            ELSE Str({self.llm_function}, 0)
        Filter(merged_context) ==
            filter_response(llm_response,
                [confidence_level |-> "MEDIUM",
                 is_first_interaction |-> merged_context.is_first_interaction,
                 is_sensitive_topic |->
                     \/ merged_context.urgency_level \in {"elevated", "critical"}
                     \/ Len(merged_context.trauma_indicators) > 0,
                 sources_cited |-> FALSE,
                 fact_checked |-> FALSE])
        Steps(merged_context, input_ethics, output_filtering) ==
            LET evaluated ==
                    [result EXCEPT !.input_ethics_score = <<input_ethics.overall_score>>,
                                   !.invoked = <<"voice_input", "ethics_layer">>]
                critical_violations ==
                    SelectSeq(input_ethics.violations, LAMBDA v : v.severity = "CRITICAL")
                blocked ==
                    [evaluated EXCEPT
                        !.blocking_reason = "Critical ethics violations in input",
                        !.final_response =
                            <<"blocking", merged_context.trauma_aware,
                              IF merged_context.trauma_aware THEN {}
                              ELSE {critical_violations[k].category :
                                       k \in 1..Len(critical_violations)},
                              merged_context.urgency_level = "critical">>]
                generated ==
                    [evaluated EXCEPT
                        !.warnings = Len(input_ethics.violations)
                                     + (IF self.llm_function = "raises" THEN 1 ELSE 0),
                        !.llm_response = IF self.llm_function = "raises" THEN <<>>
                                         ELSE <<llm_response>>,
                        !.invoked = IF self.llm_function = "none" THEN @
                                    ELSE Append(@, "llm_function")]
                filtered ==
                    [generated EXCEPT
                        !.output_filtering = TRUE,
                        !.output_tht_score = <<output_filtering.overall_score>>,
                        !.tht_scores = <<output_filtering.tht_scores>>,
                        !.flags = output_filtering.flags,
                        !.invoked = Append(@, "response_filter")]
                failed ==
                    [filtered EXCEPT
                        !.blocking_reason = "Response failed THT protocol",
                        !.final_response =
                            <<"tht_failure",
                              {c \in {"truth", "honesty", "transparency"} :
                                  output_filtering.tht_scores[c] < 7}>>]
                passed ==
                    [filtered EXCEPT
                        !.warnings = @ + Len(output_filtering.flags),
                        !.final_response = output_filtering.filtered_response,
                        !.firewall_passed = TRUE]
            IN  IF input_blocked(self, input_ethics) THEN blocked
                ELSE IF ~output_filtering.passed /\ self.strict_mode THEN failed
                ELSE passed
        Results(merged_context) ==
            { Steps(merged_context, input_ethics, output_filtering) :
                 input_ethics \in {evaluate_spiel(user_input, merged_context)},
                 output_filtering \in {Filter(merged_context)} }
    IN  IF user_input.isNone
        THEN [outcome |-> "raised", result |-> result,
              interaction_history |-> self.interaction_history]
        ELSE CHOOSE r \in
                 { [outcome |-> "returned", result |-> returned,
                    interaction_history |-> _log_interaction(self, returned)] :
                      returned \in UNION { Results(merged_context) :
                                              merged_context \in
                                                  {Merged(process_voice_input(user_input))} } } :
                 TRUE

\* AVRTFirewall.get_statistics: the counts behind its rates
get_statistics(self) ==
    LET total == Len(self.interaction_history)
        passed == Len(SelectSeq(self.interaction_history, LAMBDA i : i.firewall_passed))
    IN  [total_interactions |-> total, passed |-> passed, blocked |-> total - passed]

\* a call of process_interaction; the caller takes the result before the next
ProcessInteraction(user_input, context) ==
    /\ CallerIdle
    /\ \E r \in {process_interaction(voice, user_input, context)} :
          /\ call' = [op |-> "process_interaction", text |-> user_input,
                      context |-> context, outcome |-> r.outcome, result |-> r.result]
          /\ voice' = [voice EXCEPT !.interaction_history = r.interaction_history]
    /\ UNCHANGED <<engine, clock, wrapper, guard, fw, validation, chain, audit, limiter>>

(***************************************************************************)
(* Specifications.                                                         *)
(***************************************************************************)
DefaultEngine == SPIELEngine([file |-> "missing", doc |-> DocArray])

DefaultFirewall == AVRTFirewall(AVRTConfig(85, 90, 80, TRUE), TRUE)

Idle ==
    /\ call = NoCall
    /\ clock = 0
    /\ wrapper = NoWrapper
    /\ validation = NoValidation
    /\ chain = NoChain
    /\ limiter = RateLimiter(100, 20)
    /\ voice = VoiceFirewall(TRUE, TRUE, "none")

\* the engine: construction from any policy source, then calls
Init ==
    /\ Idle
    /\ audit = NoAudit
    /\ engine \in {SPIELEngine(src) : src \in PolicySources}
    /\ guard = FailClosedGuard(1, 50)
    /\ fw = DefaultFirewall

Next ==
    \/ CallerContinues
    \/ /\ CallerIdle
       /\ \E text \in Texts, context \in Contexts : Enforce(text, context)
    \/ /\ CallerIdle
       /\ \E s \in SafetyGrid, i \in IntegrityGrid, e \in EthicsGrid, l \in LogicGrid,
             v \in ViolationLists : DetermineAction(s, i, e, l, v)
    \/ \E src \in PolicySources : reload_policy(src)

Spec == Init /\ [][Next]_vars

\* texts the fail-closed paths are exercised with
FaultTexts == {None, Str({}, 0), Str({"help you"}, 0), Str({"kill attack weapon violence"}, 0)}

\* the fail-closed paths: SPIELEngine.enforce and the fail_closed decorator
InitFailClosed == Init

NextFailClosed ==
    \/ CallerContinues
    \/ \E text \in FaultTexts, context \in Contexts : Enforce(text, context)
    \/ Tick
    \/ \E t \in Timeouts, oe \in BOOLEAN, f \in Behaviours, v \in Values :
          WrapperCall(t, oe, f, v)
    \/ WrapperFuncReturns
    \/ WrapperFuncRaises
    \/ WrapperFuncStalls

SpecFailClosed == InitFailClosed /\ [][NextFailClosed]_vars

\* the decorator and the guard object under a running clock
InitGuard ==
    /\ Idle
    /\ audit = NoAudit
    /\ engine = DefaultEngine
    /\ guard \in {FailClosedGuard(t, 50) : t \in Timeouts}
    /\ fw = DefaultFirewall

NextGuard ==
    \/ CallerContinues
    \/ Tick
    \/ \E t \in Timeouts, oe \in BOOLEAN, f \in Behaviours, v \in Values :
          WrapperCall(t, oe, f, v)
    \/ WrapperFuncReturns
    \/ WrapperFuncRaises
    \/ WrapperFuncStalls
    \/ \E b \in Behaviours : GuardEnter(b)
    \/ GuardExit
    \/ \E r \in Values : GuardShouldBlock(r)
    \/ GuardBlockedResponse

SpecGuard == InitGuard /\ [][NextGuard]_vars

\* a wrapped computation that can finish does finish, and time passes
SpecGuardFair ==
    /\ SpecGuard
    /\ WF_vars(Tick)
    /\ WF_vars(WrapperFuncReturns)
    /\ WF_vars(WrapperFuncRaises)
    /\ WF_vars(WrapperFuncStalls)
    /\ WF_vars(GuardExit)

\* the firewall and the /validate handler
FirewallConfigs ==
    { AVRTConfig(85, 90, 80, TRUE), AVRTConfig(60, 90, 80, TRUE),
      AVRTConfig(85, 90, 80, FALSE) }

InputTexts == {Str({"yes"}, 0), None}

InitFirewall ==
    /\ Idle
    /\ audit = NoAudit
    /\ engine = DefaultEngine
    /\ guard = FailClosedGuard(1, 50)
    /\ fw \in {AVRTFirewall(c, t) : c \in FirewallConfigs, t \in BOOLEAN}

NextFirewall ==
    \/ CallerContinues
    \/ /\ CallerIdle
       /\ \E input \in InputTexts, output \in Texts : Validate(input, output)
    \/ /\ CallerIdle
       /\ \E input \in InputTexts, output \in Texts, context \in {"None", "prefs"} :
             ValidateInteraction(input, output, context)

SpecFirewall == InitFirewall /\ [][NextFirewall]_vars

\* the audit hash chain
InitChain ==
    /\ Idle
    /\ audit = NoAudit
    /\ engine = DefaultEngine
    /\ guard = FailClosedGuard(1, 50)
    /\ fw = DefaultFirewall

NextChain ==
    \/ \E hashes \in HashLists : GenerateChainHash(hashes)
    \/ \E hashes \in HashLists : VerifyChain(hashes)

SpecChain == InitChain /\ [][NextChain]_vars

\* the three histories under appends made one after another
InitRetention ==
    /\ Idle
    /\ engine = DefaultEngine
    /\ guard = FailClosedGuard(1, 50)
    /\ fw = DefaultFirewall
    /\ audit \in {AuditState(h, TRUE) : h \in Histories}
                 \cup {AuditState("interaction_history", FALSE)}

NextRetention ==
    \E h \in EntryHashes : AddAuditEntry(h)

SpecRetention == InitRetention /\ [][NextRetention]_vars

\* the histories under appends made by two threads
InitThreads ==
    /\ Idle
    /\ engine = DefaultEngine
    /\ guard = FailClosedGuard(1, 50)
    /\ fw = DefaultFirewall
    /\ audit \in {AuditState(h, TRUE) : h \in Histories}

NextThreads ==
    \E t \in Threads :
        \/ ThreadCall(t, sha256(Lit("entry1")))
        \/ ThreadAppend(t)
        \/ ThreadLen(t)
        \/ ThreadSlice(t)
        \/ ThreadStore(t)

SpecThreads == InitThreads /\ [][NextThreads]_vars

\* audit_store read by the handlers while two threads append
InitReads ==
    /\ Idle
    /\ engine = DefaultEngine
    /\ guard = FailClosedGuard(1, 50)
    /\ fw = DefaultFirewall
    /\ audit = AuditState("audit_store", TRUE)

NextReads ==
    \/ \E t \in Threads :
          \/ ThreadCall(t, IntegrityHashOf(audit.issued + 1))
          \/ ThreadAppend(t)
          \/ ThreadLen(t)
          \/ ThreadSlice(t)
          \/ ThreadStore(t)
    \/ \E limit \in Limits : get_audit_trail(limit)
    \/ \E ids \in RequestIdLists, h \in ExpectedHashes : verify_audit_integrity(ids, h)
    \/ ExportChainHash
    \/ ExportRespond
    \/ ReaderReturns

SpecReads == InitReads /\ [][NextReads]_vars

\* the three scorers: the engine under any policy, the backend service and
\* the firewall's analyzer
ScorePolicySources == PolicySources \cup {[file |-> "json", doc |-> DocLong]}

InitScore ==
    /\ Idle
    /\ audit = NoAudit
    /\ engine \in {SPIELEngine(src) : src \in ScorePolicySources}
    /\ guard = FailClosedGuard(1, 50)
    /\ fw = DefaultFirewall

NextScore ==
    \/ CallerContinues
    \/ /\ CallerIdle
       /\ \E text \in Texts, context \in Contexts : Enforce(text, context)
    \/ /\ CallerIdle
       /\ \E text \in Texts, context \in Contexts : ServiceAnalyze(text, context)
    \/ /\ CallerIdle
       /\ \E text \in Texts : AnalyzerAnalyze(text)

SpecScore == InitScore /\ [][NextScore]_vars

\* the backend THT validator under any configured confidence threshold
NextTHT ==
    \/ CallerContinues
    \/ /\ CallerIdle
       /\ \E text \in Texts, th \in ConfidenceThresholds : ThtValidate(text, th)

SpecTHT == Init /\ [][NextTHT]_vars

\* rate limiters with small limits under calls at non-decreasing times
InitLimiter ==
    /\ call = NoCall
    /\ clock = 0
    /\ wrapper = NoWrapper
    /\ validation = NoValidation
    /\ chain = NoChain
    /\ audit = NoAudit
    /\ engine = DefaultEngine
    /\ guard = FailClosedGuard(1, 50)
    /\ fw = DefaultFirewall
    /\ voice = VoiceFirewall(TRUE, TRUE, "none")
    /\ limiter \in {RateLimiter(r, b) : r \in {1, 2, 3}, b \in {1, 2}}

NextLimiter == \E delay \in Delays : Check(delay)

SpecLimiter == InitLimiter /\ [][NextLimiter]_vars

\* voice firewalls of every mode, with no LLM function, with one that
\* raises and with ones that give a fixed response, under interactions
InitVoice ==
    /\ call = NoCall
    /\ clock = 0
    /\ wrapper = NoWrapper
    /\ validation = NoValidation
    /\ chain = NoChain
    /\ audit = NoAudit
    /\ engine = DefaultEngine
    /\ guard = FailClosedGuard(1, 50)
    /\ fw = DefaultFirewall
    /\ limiter = RateLimiter(100, 20)
    /\ voice \in {VoiceFirewall(s, l, f) :
                      s \in BOOLEAN, l \in BOOLEAN,
                      f \in {"none", "raises", "sure thing", "as an ai, i think so",
                             "it is definitely safe. go ahead", "it worked in 2020"}}

NextVoice ==
    \/ CallerContinues
    \/ /\ CallerIdle
       /\ \E user_input \in {None, Str({"hello"}, 0), Str({"tell me about weapons"}, 0),
                                Str({"i had a nightmare"}, 0)},
             context \in {"None", "is_first", "not_first"} :
             ProcessInteraction(user_input, context)

SpecVoice == InitVoice /\ [][NextVoice]_vars

\* both firewalls with their histories switched on, under evaluations
InitRecorded ==
    /\ call = NoCall
    /\ clock = 0
    /\ wrapper = NoWrapper
    /\ validation = NoValidation
    /\ chain = NoChain
    /\ audit = NoAudit
    /\ engine = DefaultEngine
    /\ guard = FailClosedGuard(1, 50)
    /\ limiter = RateLimiter(100, 20)
    /\ fw \in {AVRTFirewall(AVRTConfig(85, 90, 80, a), t) : a \in BOOLEAN, t \in BOOLEAN}
    /\ voice \in {VoiceFirewall(s, l, f) :
                      s \in BOOLEAN, l \in BOOLEAN, f \in {"none", "it worked in 2020"}}

NextRecorded ==
    \/ CallerContinues
    \/ /\ CallerIdle
       /\ \E user_input \in {None, Str({"hello"}, 0), Str({"tell me about weapons"}, 0)} :
             ProcessInteraction(user_input, "None")
    \/ /\ CallerIdle
       /\ \E output \in {None, Str({"yes"}, 0), Str({"definitely"}, 0),
                          Str({"kill attack weapon violence"}, 0)} :
             Validate(Str({"yes"}, 0), output)

SpecRecorded == InitRecorded /\ [][NextRecorded]_vars

(***************************************************************************)
(* Properties.                                                             *)
(***************************************************************************)
\* the last call was an enforce whose try block met a fault
EnforceFault ==
    /\ call.op = "enforce"
    /\ call.text.isNone \/ call.context = "str"

\* the last call applied _determine_action (directly or inside enforce)
Decided ==
    \/ call.op = "determine"
    \/ call.op = "enforce" /\ ~call.text.isNone /\ call.context # "str"

\* C1: with fail-closed on, a fault inside enforce gives the fixed BLOCK
\* result with all scores 0 (never ALLOW, never the scores computed before the
\* fault), and a fault inside a function wrapped with on_exception=True gives
\* a FailClosedResponse that is blocked with reason EXCEPTION.
C1_FaultIsContained ==
    /\ (EnforceFault /\ engine.fail_closed) =>
          /\ call.outcome = "returned"
          /\ call.result.action = "BLOCK"
          /\ call.result.safety_score = 0
          /\ call.result.composite5 = 0
          /\ call.result.violations = <<<<"system_error", "">>>>
    /\ (wrapper.pc = "done" /\ wrapper.func = "raises" /\ wrapper.on_exception) =>
          /\ wrapper.ret.kind = "FailClosedResponse"
          /\ wrapper.ret.blocked
          /\ wrapper.ret.reason = "EXCEPTION"

\* a fault after the safety analysis already found harmful patterns
C1_Witness ==
    /\ EnforceFault
    /\ engine.fail_closed
    /\ call.context = "str"
    /\ call.text = Str({"kill attack weapon violence"}, 0)
    /\ call.result.action = "BLOCK"

C3_BlockRules ==
    Decided =>
        LET r == call.result
        IN  /\ (r.safety_score < 50 \/ r.ethics_score < 50) =>
                  /\ r.action = "BLOCK"
                  /\ r.reasoning = "Critical safety or ethics violation"
            /\ (r.safety_score < engine.safety_threshold
                \/ r.ethics_score < engine.ethics_threshold) => r.action = "BLOCK"

\* a score under the floor but over a threshold configured below 50, while a
\* Warn rule matches too
C3_Witness ==
    /\ call.op = "determine"
    /\ engine.safety_threshold = 40
    /\ call.result.safety_score = 45
    /\ call.result.ethics_score >= 50
    /\ call.result.integrity_score < engine.integrity_threshold
    /\ call.result.action = "BLOCK"

\* C4: when no Block rule applies the action is WARN if integrity or logic is
\* below its threshold (violations or not), else REVIEW if a violation was
\* recorded, else ALLOW; ALLOW comes only with all four thresholds met and no
\* violation.
C4_WarnReviewAllow ==
    Decided =>
        LET r == call.result
        IN  /\ (/\ r.safety_score >= Max(50, engine.safety_threshold)
                /\ r.ethics_score >= Max(50, engine.ethics_threshold)) =>
                  r.action = IF \/ r.integrity_score < engine.integrity_threshold
                                \/ r.logic_score < engine.logic_threshold
                             THEN "WARN"
                             ELSE IF r.violations # <<>> THEN "REVIEW" ELSE "ALLOW"
            /\ r.action = "ALLOW" =>
                  /\ r.safety_score >= engine.safety_threshold
                  /\ r.ethics_score >= engine.ethics_threshold
                  /\ r.integrity_score >= engine.integrity_threshold
                  /\ r.logic_score >= engine.logic_threshold
                  /\ r.violations = <<>>

\* integrity below its threshold with violations recorded
C4_Witness ==
    /\ call.op = "enforce"
    /\ call.result.action = "WARN"
    /\ call.result.violations # <<>>
    /\ call.result.integrity_score < engine.integrity_threshold

\* C5: a text the THT validator reports non-compliant, for which none of the
\* score rules 1-5 matches, gets the action WARN.
C5_NonCompliantWarns ==
    (/\ call.op = "enforce"
     /\ ~call.text.isNone
     /\ call.context # "str"
     /\ ~THTService_validate(call.text).is_compliant
     /\ call.result.safety_score >= Max(50, engine.safety_threshold)
     /\ call.result.ethics_score >= Max(50, engine.ethics_threshold)
     /\ call.result.integrity_score >= engine.integrity_threshold
     /\ call.result.logic_score >= engine.logic_threshold)
    => call.result.action = "WARN"

\* the SPIEL threshold check of the last validation failed
SpielBlocked ==
    IF validation.op = "validate"
    THEN ~is_passing(validation.spiel_score, fw.config.safety_threshold)
    ELSE ~(/\ validation.spiel_score.safety >= 85
           /\ validation.spiel_score.integrity >= 80
           /\ validation.spiel_score.ethics >= 90
           /\ validation.spiel_score.composite5 >= 5 * 85)

ThtFailed ==
    /\ validation.tht_validation # <<>>
    /\ ~validation.tht_validation[1].is_compliant

Validated ==
    /\ validation.op \in {"validate", "validate_interaction"}
    /\ validation.outcome = "returned"

\* C6: a validation whose SPIEL check failed is BLOCKED and not safe whatever
\* THT says; THT non-compliance only turns SAFE into WARNING.
C6_BlockNeverDowngrades ==
    Validated =>
        /\ SpielBlocked => (validation.status = "BLOCKED" /\ ~validation.is_safe)
        /\ validation.status = "WARNING" => (~SpielBlocked /\ ThtFailed)
        /\ validation.status = "SAFE" => (~SpielBlocked /\ ~ThtFailed)
        /\ validation.is_safe <=> validation.status # "BLOCKED"

\* SPIEL and THT fail together
C6_Witness ==
    /\ Validated
    /\ SpielBlocked
    /\ ThtFailed
    /\ validation.status = "BLOCKED"

\* C7: when the wrapped function returns, the wrapper gives a TIMEOUT response
\* if more than the timeout has elapsed and the function's result otherwise; a
\* result is given only then.  A guard asked after its timeout has elapsed
\* answers that it blocks, with reason TIMEOUT unless an error was caught.
C7_TimeoutDiscardsResult ==
    /\ [][(wrapper.pc = "running" /\ wrapper'.pc = "done") =>
            /\ wrapper'.ret.kind = "result" =>
                  /\ wrapper.func = "returns"
                  /\ clock - wrapper.start_time <= wrapper.timeout_seconds
                  /\ wrapper'.ret.value = wrapper.value
            /\ (wrapper.func = "returns"
                /\ clock - wrapper.start_time > wrapper.timeout_seconds) =>
                  wrapper'.ret = FailClosedResponse("TIMEOUT")
            /\ (wrapper.func = "returns"
                /\ clock - wrapper.start_time <= wrapper.timeout_seconds) =>
                  wrapper'.ret = Returned(wrapper.value)]_vars
    /\ [](guard.query.q # "none" /\ guard.query.at - guard.start_time > guard.timeout =>
            /\ guard.query.answer
            /\ (guard.query.q = "blocked_response" /\ ~guard.error) =>
                  guard.query.reason = "TIMEOUT")

C7_Witness ==
    /\ wrapper.pc = "done"
    /\ wrapper.func = "returns"
    /\ ~wrapper.value.isNone
    /\ wrapper.ret = FailClosedResponse("TIMEOUT")

\* C8: once the timeout has elapsed a call through the wrapper returns, even
\* when the wrapped function never does.
C8_StalledCallReturns ==
    (wrapper.pc = "running" /\ clock - wrapper.start_time > wrapper.timeout_seconds)
        ~> (wrapper.pc = "done")

\* C9: a result that came without error and within the timeout, with a
\* confidence below the guard's uncertainty_threshold, is blocked.
C9_LowConfidenceBlocked ==
    (/\ guard.query.q = "should_block"
     /\ ~guard.error
     /\ guard.query.at - guard.start_time <= guard.timeout
     /\ ~guard.query.result.isNone
     /\ guard.query.result.confidence < guard.uncertainty_threshold)
    => guard.query.answer

\* C10: verify_chain(hs2, generate_chain_hash(hs)) is True exactly when
\* hs2 = hs.
C10_VerifyIffSameList ==
    chain.op = "verify_chain" => (chain.answer <=> chain.checked = chain.hashes)

\* one entry in the middle replaced, verified against the original chain hash
C10_Witness ==
    /\ chain.op = "verify_chain"
    /\ Len(chain.hashes) = 3
    /\ Len(chain.checked) = 3
    /\ chain.checked[1] = chain.hashes[1]
    /\ chain.checked[2] # chain.hashes[2]
    /\ chain.checked[3] = chain.hashes[3]
    /\ ~chain.answer

\* the list without its last entry
Front(list) == SubSeq(list, 1, Len(list) - 1)

\* C11: the chain hash of hs + [h] is sha256(chain hash of hs + "|" + h), the
\* link before the first record being the literal "genesis", so the chain
\* hash of one entry is sha256("genesis|" + h).
C11_ChainRecurrence ==
    (chain.op = "generate_chain_hash" /\ chain.hashes # <<>>) =>
        /\ chain.chain_hash =
               sha256(generate_chain_hash(Front(chain.hashes)) \o Lit("|")
                      \o chain.hashes[Len(chain.hashes)])
        /\ Len(chain.hashes) = 1 =>
               chain.chain_hash = sha256(Lit("genesis") \o Lit("|") \o chain.hashes[1])

\* a chain of three entries whose last link rests on a two-entry chain
C11_Witness ==
    /\ chain.op = "generate_chain_hash"
    /\ Len(chain.hashes) = 3
    /\ chain.hashes[1] # chain.hashes[2]

\* C12: the chain hash of the empty list is sha256("genesis"), not the raw
\* marker.
C12_GenesisIsHashed ==
    (chain.op = "generate_chain_hash" /\ chain.hashes = <<>>) =>
        chain.chain_hash = sha256(Lit("genesis"))

\* C13: after n appends made one after another, a history of capacity CAP
\* holds at most CAP entries and is exactly the last min(n, CAP) appended
\* entries, unchanged and in append order.
C13_RingRetention ==
    AuditIdle =>
        /\ Len(Current(audit)) <= audit.cap
        /\ Current(audit) = Last(audit.appended, audit.cap)

\* a rebound history that has evicted its two oldest entries
C13_Witness ==
    /\ AuditIdle
    /\ audit.history = "audit_trail"
    /\ Len(audit.appended) = audit.cap + 2
    /\ Len(Current(audit)) = audit.cap
    /\ Current(audit)[1].request_id = 3

\* C14: when threads append concurrently, every appended entry is in the
\* history exactly once unless it is among the oldest entries and evicted:
\* once all calls have returned, the history is the last CAP entries in the
\* order the appends were applied.
C14_ConcurrentAppendsKept ==
    AuditIdle =>
        \A i \in 1..Len(audit.appended) :
            i > Len(audit.appended) - audit.cap =>
                Cardinality({j \in 1..Len(Current(audit)) :
                                 Current(audit)[j] = audit.appended[i]}) = 1

\* C15: in every response of export, query and verify given while appends
\* run, the chain hash returned is the chain hash of exactly the entries
\* returned (or verified) in that response.
C15_ReadsAreSnapshots ==
    (audit.reader.pc = "done" /\ audit.reader.status = 200) =>
        /\ audit.reader.chain_hash =
               generate_chain_hash(IntegrityHashes(audit.reader.entries))
        /\ audit.reader.total_count = Len(audit.reader.entries)

\* the five dimension scores of the last call's result, whichever scorer
\* gave it
Dimensions ==
    IF call.op = "enforce"
    THEN <<call.result.safety_score, call.result.personalization_score,
           call.result.integrity_score, call.result.ethics_score,
           call.result.logic_score>>
    ELSE IF call.op = "analyze"
    THEN <<call.result.score.safety, call.result.score.personalization,
           call.result.score.integrity, call.result.score.ethics,
           call.result.score.logic>>
    ELSE <<call.result.safety, call.result.personalization, call.result.integrity,
           call.result.ethics, call.result.logic>>

Scored == call.op \in {"enforce", "analyze", "score"} /\ call.outcome = "returned"

\* C16: whatever the text, the context and the pattern catalog, each of the
\* five dimension scores a scorer returns (engine, backend service, firewall
\* analyzer) lies in [0, 100].
C16_ScoresBounded ==
    Scored => \A d \in 1..5 : Dimensions[d] >= 0 /\ Dimensions[d] <= 100

\* the engine scored a text with nine harmful phrases: 100 - 9 * 15 is below 0
C16_Witness ==
    /\ call.op = "enforce"
    /\ call.outcome = "returned"
    /\ call.text.frags = {ViolationText, "kill attack weapon violence"}
    /\ Count(engine.harmful_patterns, lower(call.text)) = 9
    /\ call.result.safety_score = 0

\* five times the composite of the last call's result
Composite5 ==
    IF call.op = "analyze" THEN call.result.score.composite5 ELSE call.result.composite5

\* C17: in every result of SPIELEngine.enforce (the fail-closed error result
\* included), SPIELService.analyze and SPIELAnalyzer.analyze (a SPIELScore),
\* composite is the sum of the five dimension scores divided by 5, and so
\* lies between the least and the greatest of them.
C17_CompositeIsMean ==
    Scored =>
        /\ Composite5 = Dimensions[1] + Dimensions[2] + Dimensions[3]
                         + Dimensions[4] + Dimensions[5]
        /\ \E d \in 1..5 : 5 * Dimensions[d] <= Composite5
        /\ \E d \in 1..5 : Composite5 <= 5 * Dimensions[d]

\* the backend service scored a text whose dimensions differ, and the
\* composite lies strictly between the least and the greatest
C17_Witness ==
    /\ call.op = "analyze"
    /\ call.outcome = "returned"
    /\ call.result.score.safety = 0
    /\ call.result.score.personalization = 80
    /\ Composite5 > 0
    /\ Composite5 < 5 * 80

\* C18: an evaluation of (text, context) returns what any other evaluation
\* of the same (text, context) under the same policy returns (scores,
\* composite, violations, action), in particular what an engine instance
\* constructed separately from that policy returns.
C18_Deterministic ==
    (call.op = "enforce") =>
        \A src \in PolicySources :
            (_load_policy(src) = engine.policy /\ SPIELEngine(src).constructed) =>
                <<call.outcome, call.result>> = enforce(SPIELEngine(src), call.text, call.context)

\* the phrases of a harmful-pattern list that occur in a text
HarmfulPresent(patterns, text) ==
    {patterns[k] : k \in {j \in 1..Len(patterns) : In(patterns[j], lower(text))}}

\* the text with one more fragment added to it
WithFragment(text, f) == Str(text.frags \cup {f}, text.ws)

\* C19: adding to a scored text an occurrence of harmful phrases, so that
\* every phrase that matched still matches, never raises the Safety score:
\* Safety is non-increasing in the set of harmful phrases present, for
\* SPIELEngine._analyze_safety and for SPIELService._analyze_safety.
C19_SafetyMonotone ==
    /\ (call.op = "enforce" /\ ~EnforceFault) =>
          \A f \in Vocab :
              LET t2 == WithFragment(call.text, f)
              IN  HarmfulPresent(engine.harmful_patterns, call.text)
                      \subseteq HarmfulPresent(engine.harmful_patterns, t2)
                  => _analyze_safety(engine, t2).score <= call.result.safety_score
    /\ (call.op = "analyze" /\ call.outcome = "returned") =>
          \A f \in Vocab :
              LET t2 == WithFragment(call.text, f)
              IN  HarmfulPresent(ServiceHarmful, call.text)
                      \subseteq HarmfulPresent(ServiceHarmful, t2)
                  => SPIELService_analyze_safety(t2) <= call.result.score.safety

\* the service scored a text with four harmful phrases, and adding seven
\* more phrases lowers the score to the floor
C19_Witness ==
    /\ call.op = "analyze"
    /\ call.outcome = "returned"
    /\ call.text.frags = {"kill attack weapon violence"}
    /\ call.result.score.safety = 40
    /\ Cardinality(HarmfulPresent(ServiceHarmful, WithFragment(call.text, ViolationText))) = 11
    /\ SPIELService_analyze_safety(WithFragment(call.text, ViolationText)) = 0

\* C20: in every result of THTService.validate, confidence_score is the
\* number of passing checks (truth, honesty, transparency) divided by 3,
\* is_compliant holds exactly when all three checks pass and the confidence
\* reaches the configured threshold, and there is one issue per failing check.
C20_ConfidenceAndCompliance ==
    (call.op = "tht_validate" /\ call.outcome = "returned") =>
        LET r == call.result.tht
            passing == Cardinality({c \in {"t", "h", "p"} :
                           \/ c = "t" /\ r.truth_verified
                           \/ c = "h" /\ r.honesty_verified
                           \/ c = "p" /\ r.transparency_verified})
        IN  /\ r.confidence3 = passing
            /\ r.is_compliant <=>
                  (passing = 3 /\ 10 * r.confidence3 >= 3 * call.result.confidence_threshold10)
            /\ r.is_compliant => 10 * r.confidence3 >= 3 * call.result.confidence_threshold10
            /\ passing < 3 => ~r.is_compliant
            /\ Len(r.issues) = 3 - passing

\* a text failing the transparency check alone, validated under a threshold
\* of 0.5: confidence 2/3 reaches the threshold, yet the result is not compliant
C20_Witness ==
    /\ call.op = "tht_validate"
    /\ call.outcome = "returned"
    /\ call.result.confidence_threshold10 = 5
    /\ call.result.tht.truth_verified
    /\ call.result.tht.honesty_verified
    /\ ~call.result.tht.transparency_verified
    /\ call.result.tht.confidence3 = 2
    /\ ~call.result.tht.is_compliant
    /\ call.result.tht.issues = <<"Transparency check failed">>

\* C22: an evaluation uses the thresholds and the pattern lists of one policy
\* document, the one that is current when it starts: once reload_policy has
\* returned, an evaluation compares with the thresholds and matches the
\* pattern lists of the newly loaded document.
C22_EvaluationUsesCurrentDocument ==
    (call.op = "enforce" /\ engine.policy.kind = "object") =>
        LET th == Get(engine.policy.thresholds, NoThresholds)
            pt == Get(engine.policy.patterns, NoPatterns)
        IN  /\ engine.safety_threshold = Get(th.safety, 85)
            /\ engine.ethics_threshold = Get(th.ethics, 90)
            /\ engine.integrity_threshold = Get(th.integrity, 80)
            /\ engine.logic_threshold = Get(th.logic, 75)
            /\ engine.personalization_threshold = Get(th.personalization, 70)
            /\ engine.harmful_patterns = Get(pt.harmful, <<>>)
            /\ engine.unethical_patterns = Get(pt.unethical, <<>>)
            /\ engine.dishonest_patterns = Get(pt.dishonest, <<>>)
            /\ engine.positive_patterns = Get(pt.positive, <<>>)

\* C23: constructing an engine succeeds for any policy source, and for each
\* part the policy document lacks (thresholds, patterns, fail_closed) the
\* engine uses the built-in default: thresholds 85/90/80/75/70, the default
\* pattern lists, fail_closed true.
C23_DefaultsSubstituted ==
    LET th == Get(engine.policy.thresholds, NoThresholds)
        pt == Get(engine.policy.patterns, NoPatterns)
    IN  /\ engine.constructed
        /\ engine.safety_threshold = Get(th.safety, 85)
        /\ engine.ethics_threshold = Get(th.ethics, 90)
        /\ engine.integrity_threshold = Get(th.integrity, 80)
        /\ engine.logic_threshold = Get(th.logic, 75)
        /\ engine.personalization_threshold = Get(th.personalization, 70)
        /\ engine.harmful_patterns = Get(pt.harmful, DefaultHarmful)
        /\ engine.unethical_patterns = Get(pt.unethical, DefaultUnethical)
        /\ engine.dishonest_patterns = Get(pt.dishonest, DefaultDishonest)
        /\ engine.positive_patterns = Get(pt.positive, DefaultPositive)
        /\ engine.fail_closed = Get(engine.policy.fail_closed, TRUE)

\* C25: the limit of an audit query is a maximum: get_audit_trail(limit)
\* returns at most `limit` entries (the most recent ones), and none for
\* limit = 0.
C25_LimitIsMaximum ==
    (audit.reader.pc = "done" /\ audit.reader.op = "get_audit_trail") =>
        Len(audit.reader.entries) <= audit.reader.limit

\* C26: in every validation result the message is the original output when
\* is_safe holds (status SAFE or WARNING) and the fixed safe-alternative text
\* when it does not (status BLOCKED); is_safe fails exactly when the status is
\* BLOCKED.
C26_BlockedContentNotReleased ==
    Validated =>
        /\ validation.is_safe =>
              /\ validation.message = validation.output
              /\ validation.status \in {"SAFE", "WARNING"}
        /\ ~validation.is_safe =>
              /\ validation.message = SafeAlternative
              /\ validation.status = "BLOCKED"

\* the firewall blocked an output with harmful phrases and released the
\* fixed text in its place
C26_Witness ==
    /\ Validated
    /\ validation.op = "validate"
    /\ ~validation.is_safe
    /\ validation.output.frags = {"kill attack weapon violence"}
    /\ validation.violations # <<>>
    /\ validation.message = SafeAlternative

\* C27: under every configuration of the three thresholds, a result of
\* AVRTFirewall.validate with is_safe true has safety, ethics and integrity at
\* or above their configured thresholds; an ethics score below the ethics
\* threshold gives BLOCKED.
C27_SafeMeetsEveryThreshold ==
    (validation.op = "validate" /\ validation.outcome = "returned" /\ validation.is_safe) =>
        /\ validation.spiel_score.safety >= fw.config.safety_threshold
        /\ validation.spiel_score.ethics >= fw.config.ethics_threshold
        /\ validation.spiel_score.integrity >= fw.config.integrity_threshold

\* C30: a fault caught by a FailClosedGuard is sticky: once __exit__ has
\* suppressed an exception the error stays set, also when the guard is entered
\* again, and from then on should_block answers True for any result and
\* blocked_response has reason EXCEPTION, whatever the elapsed time.
C30_CaughtFaultIsSticky ==
    [][/\ guard.error => guard'.error
       /\ (guard'.error /\ guard'.query.q = "should_block") => guard'.query.answer
       /\ (guard'.error /\ guard'.query.q = "blocked_response") =>
              guard'.query.reason = "EXCEPTION"]_vars

\* a guard that caught a fault was entered again, and within the timeout
\* should_block is asked about a result that is not None
C30_Witness ==
    /\ guard.error
    /\ guard.pc = "in"
    /\ guard.query.q = "should_block"
    /\ ~guard.query.result.isNone
    /\ clock - guard.start_time <= guard.timeout
    /\ guard.query.answer

\* C29: after any sequence of check() calls at non-decreasing times, the
\* calls answered True within any minute (a window open at its start and
\* closed at its end) never exceed requests_per_minute, and within any second
\* never exceed burst_limit; a call over a limit is answered RATE_LIMIT and is
\* not recorded, so request_times holds exactly the times of the calls
\* answered True in the last minute.
C29_RateLimited ==
    /\ \A k \in 1..Len(limiter.granted) :
          LET upto == SubSeq(limiter.granted, 1, k)
          IN  /\ Since(upto, limiter.granted[k] - 120) <= limiter.requests_per_minute
              /\ Since(upto, limiter.granted[k] - 2) <= limiter.burst_limit
    /\ limiter.checks > 0 =>
          limiter.request_times = SelectSeq(limiter.granted, LAMBDA t : t > limiter.now - 120)
    /\ limiter.answer = "RATE_LIMIT" =>
          \/ Since(limiter.granted, limiter.now - 2) >= limiter.burst_limit
          \/ Since(limiter.granted, limiter.now - 120) >= limiter.requests_per_minute

\* a call was refused for the minute limit, with the second limit not reached,
\* after calls were granted
C29_Witness ==
    /\ limiter.answer = "RATE_LIMIT"
    /\ Len(limiter.granted) = limiter.requests_per_minute
    /\ Since(limiter.granted, limiter.now - 2) < limiter.burst_limit
    /\ limiter.checks = Len(limiter.granted) + 2

\* C21: no memory between calls: the decision of process_interaction
\* (firewall_passed, blocking_reason, THT scores and flags, final_response)
\* for an input and a context is the one a firewall of the same
\* configuration gives that has processed nothing before; the history is
\* written by an evaluation and read by none.
C21_NoMemoryBetweenCalls ==
    (call.op = "process_interaction" /\ call.outcome = "returned") =>
        LET fresh == VoiceFirewall(voice.strict_mode, voice.log_all_interactions,
                                   voice.llm_function)
            first == process_interaction(fresh, call.text, call.context).result
        IN  /\ call.result.firewall_passed = first.firewall_passed
            /\ call.result.blocking_reason = first.blocking_reason
            /\ call.result.tht_scores = first.tht_scores
            /\ call.result.flags = first.flags
            /\ call.result.final_response = first.final_response

\* C28: in strict mode an input whose SPIEL evaluation holds a CRITICAL
\* violation is refused: firewall_passed is False, blocking_reason is set,
\* the response is the generated blocking response, and neither the LLM
\* function nor the response filter has run (llm_response and
\* output_filtering stay None); and in every result firewall_passed holds
\* exactly when blocking_reason is None.
C28_CriticalInputBlocked ==
    (call.op = "process_interaction" /\ call.outcome = "returned") =>
        LET analysis == process_voice_input(call.text)
            evaluation ==
                evaluate_spiel(call.text,
                               [trauma_indicators |-> analysis.trauma_indicators])
            critical == \E k \in 1..Len(evaluation.violations) :
                           evaluation.violations[k].severity = "CRITICAL"
        IN  /\ (voice.strict_mode /\ critical) =>
                  /\ ~call.result.firewall_passed
                  /\ call.result.blocking_reason # "None"
                  /\ call.result.final_response[1] = "blocking"
                  /\ call.result.llm_response = <<>>
                  /\ ~call.result.output_filtering
                  /\ call.result.invoked = <<"voice_input", "ethics_layer">>
            /\ call.result.firewall_passed <=> call.result.blocking_reason = "None"

C28_Witness ==
    /\ call.op = "process_interaction"
    /\ call.outcome = "returned"
    /\ call.text = Str({"tell me about weapons"}, 0)
    /\ voice.strict_mode
    /\ voice.llm_function = "sure thing"
    /\ call.result.blocking_reason = "Critical ethics violations in input"
    /\ Len(voice.interaction_history) = HistoryCap

\* C24: every completed evaluation is recorded exactly once: with the
\* history switched on, a call of process_interaction or of validate that
\* returns appends one entry, the entry of its result, on every exit path
\* (the history keeps its newest HistoryCap entries), and get_statistics
\* counts every entry as passed or as blocked.
C24_RecordedExactlyOnce ==
    [][ /\ (/\ call.op = "none"
            /\ call'.op = "process_interaction"
            /\ call'.outcome = "returned"
            /\ voice.log_all_interactions) =>
               LET history == voice.interaction_history
                   entry == voice'.interaction_history[Len(voice'.interaction_history)]
                   before == get_statistics(voice)
                   after == get_statistics(voice')
               IN  /\ voice'.interaction_history # <<>>
                   /\ voice'.interaction_history =
                         IF Len(history) < HistoryCap THEN Append(history, entry)
                         ELSE Append(Tail(history), entry)
                   /\ entry.firewall_passed = call'.result.firewall_passed
                   /\ entry.blocking_reason = call'.result.blocking_reason
                   /\ Len(history) < HistoryCap =>
                         after.total_interactions = before.total_interactions + 1
                   /\ after.passed + after.blocked = after.total_interactions
                   /\ after.passed =
                         Cardinality({k \in 1..Len(voice'.interaction_history) :
                                         voice'.interaction_history[k].blocking_reason = "None"})
        /\ (/\ validation.op = "none"
            /\ validation'.op = "validate"
            /\ validation'.outcome = "returned"
            /\ fw.config.enable_audit_trail) =>
               LET before == AVRTFirewall_get_statistics(fw)
                   after == AVRTFirewall_get_statistics(fw')
               IN  /\ fw'.audit_trail =
                         Append(fw.audit_trail, [status |-> validation'.status,
                                                 is_safe |-> validation'.is_safe])
                   /\ after.total_validations = before.total_validations + 1
                   /\ after.blocked_count =
                         before.blocked_count + (IF validation'.is_safe THEN 0 ELSE 1)
      ]_vars

C24_Witness ==
    /\ call.op = "process_interaction"
    /\ call.outcome = "returned"
    /\ call.result.blocking_reason = "Response failed THT protocol"
    /\ voice.log_all_interactions
    /\ Len(voice.interaction_history) = HistoryCap
    /\ \E k \in 1..Len(voice.interaction_history) :
          voice.interaction_history[k].blocking_reason = "Critical ethics violations in input"
    /\ AVRTFirewall_get_statistics(fw).total_validations = MaxCalls
    /\ AVRTFirewall_get_statistics(fw).blocked_count = 1
====
